---- MODULE Spec2Model ----
(***************************************************************************)
(* A model of the git-stub and git-stub-vcs crates.                        *)
(*                                                                         *)
(* Text is modelled as a sequence of one-character strings, so that        *)
(* trimming, splitting, hex decoding and path decomposition are computed   *)
(* character by character, as the code computes them.                      *)
(***************************************************************************)
EXTENDS Integers, Sequences, FiniteSets, TLC

VARIABLES
    windows,    \* the build target: TRUE when std::path parses drive prefixes
    mode,       \* which entry point the run exercises: "hash", "new" or "parse"
    pc,         \* position of the run
    hashIn,     \* input of GitCommitHash::from_str
    commitIn,   \* commit argument of GitStub::new
    pathIn,     \* path argument of GitStub::new
    textIn,     \* input of GitStub::from_str
    otherIn,    \* a second input of GitStub::from_str, for comparing two stubs
    hashRes,    \* Result<GitCommitHash, CommitHashParseError>
    hashText,   \* Display of the parsed hash
    hashRes2,   \* result of parsing hashText again
    hashOrd,    \* Ordering of the parsed hash against another hash
    res,        \* Result<GitStub, GitStubParseError> of the first construction
    contents,   \* to_file_contents() of the constructed stub
    res2,       \* result of parsing contents again
    other,      \* Result<GitStub, GitStubParseError> of parsing otherIn
    set,        \* a HashSet<GitStub>
    world,      \* the repository root, its markers and the environment variables
    fs,         \* the files on disk: location -> content
    dirs,       \* the directories create_dir_all has made
    mat,        \* the Materializer the caller holds, if any
    vetted,     \* the (vcs, repo_root) pairs a shallow check has answered "not shallow" for
    ret,        \* what the last Materializer operation returned
    effects,    \* what the last Materializer operation did, in order
    calls,      \* number of Materializer operations so far
    run,        \* the materialize calls in progress, step by step, one per caller
    prev,       \* what the materialize call before the last one returned and left
    vres        \* what the last operation of a Vcs returned

inputs == <<windows, mode, hashIn, commitIn, pathIn, textIn, otherIn>>

hashVars == <<hashRes, hashText, hashRes2, hashOrd>>

stubVars == <<res, contents, res2>>

eqVars == <<other, set>>

callVars == <<run, prev, vres>>

matVars == <<world, fs, dirs, mat, vetted, ret, effects, calls, callVars>>

vars == <<inputs, pc, hashVars, stubVars, eqVars, matVars>>

----------------------------------------------------------------------------
(* Bounds of the model. *)

\* Longest path, in '/'- or '\'-separated pieces, that a run is given.
MaxComponents == 3

----------------------------------------------------------------------------
(* Text primitives (Rust's str methods, on ASCII). *)

\* The characters str::trim removes, among those the model uses.
WhiteSpace == {" ", "\n", "\r", "\t"}

AsciiUpper == {"A", "B", "C", "D", "E", "F"}

AsciiLower == {"a", "b", "c", "d", "e", "f", "g"}

Contains(s, c) == \E i \in DOMAIN s : s[i] = c

EndsWith(s, c) == Len(s) > 0 /\ s[Len(s)] = c

Replace(s, from, to) == [i \in DOMAIN s |-> IF s[i] = from THEN to ELSE s[i]]

\* str::trim: the slice between the first and the last non-whitespace character.
Trim(s) ==
    LET keep == {i \in DOMAIN s : s[i] \notin WhiteSpace}
    IN  IF keep = {} THEN <<>>
        ELSE LET lo == CHOOSE i \in keep : \A j \in keep : i <= j
                 hi == CHOOSE i \in keep : \A j \in keep : j <= i
             IN  SubSeq(s, lo, hi)

\* str::rsplit_once: the text before and after the last occurrence of c.
SplitOnce_Last(s, c) ==
    LET hits == {i \in DOMAIN s : s[i] = c}
    IN  IF hits = {} THEN [found |-> FALSE, left |-> <<>>, right |-> <<>>]
        ELSE LET k == CHOOSE i \in hits : \A j \in hits : j <= i
             IN  [found |-> TRUE,
                  left  |-> SubSeq(s, 1, k - 1),
                  right |-> SubSeq(s, k + 1, Len(s))]

\* str::split_once: the text before and after the first occurrence of c.
SplitOnce(s, c) ==
    LET hits == {i \in DOMAIN s : s[i] = c}
    IN  IF hits = {} THEN [found |-> FALSE, left |-> <<>>, right |-> <<>>]
        ELSE LET k == CHOOSE i \in hits : \A j \in hits : i <= j
             IN  [found |-> TRUE,
                  left  |-> SubSeq(s, 1, k - 1),
                  right |-> SubSeq(s, k + 1, Len(s))]

\* The pieces of s between characters of the set seps (empty pieces included).
RECURSIVE SplitAny(_, _)
SplitAny(s, seps) ==
    LET hits == {i \in DOMAIN s : s[i] \in seps}
    IN  IF hits = {} THEN <<s>>
        ELSE LET k == CHOOSE i \in hits : \A j \in hits : i <= j
             IN  <<SubSeq(s, 1, k - 1)>> \o SplitAny(SubSeq(s, k + 1, Len(s)), seps)

----------------------------------------------------------------------------
(* GitCommitHash (hash.rs). *)

Sha1HexLen == 40

Sha256HexLen == 64

HexLower == <<"0", "1", "2", "3", "4", "5", "6", "7",
              "8", "9", "a", "b", "c", "d", "e", "f">>

HexUpper == <<"0", "1", "2", "3", "4", "5", "6", "7",
              "8", "9", "A", "B", "C", "D", "E", "F">>

IsHexDigit(c) == \E v \in 1..16 : HexLower[v] = c \/ HexUpper[v] = c

HexVal(c) == (CHOOSE v \in 1..16 : HexLower[v] = c \/ HexUpper[v] = c) - 1

NoHash == [kind |-> "None", bytes |-> <<>>]

NoHashErr == [kind |-> "None", len |-> 0]

\* hex::decode_to_slice for a text of exactly 2 * n characters.
DecodeToSlice(s, n) ==
    IF \A i \in DOMAIN s : IsHexDigit(s[i])
    THEN [ok |-> TRUE,
          bytes |-> [i \in 1..n |-> HexVal(s[2 * i - 1]) * 16 + HexVal(s[2 * i])]]
    ELSE [ok |-> FALSE, bytes |-> <<>>]

\* hex::encode: two lowercase digits per byte.
HexEncode(bytes) ==
    [i \in 1..(2 * Len(bytes)) |->
        LET b == bytes[(i + 1) \div 2]
        IN  IF i % 2 = 1 THEN HexLower[(b \div 16) + 1] ELSE HexLower[(b % 16) + 1]]

\* GitCommitHash::from_str with the digits checked before the length.
GitCommitHash_from_str_HexFirst(s) ==
    LET len == Len(s)
    IN  IF ~(\A i \in DOMAIN s : IsHexDigit(s[i]))
        THEN [ok |-> FALSE, hash |-> NoHash, err |-> [kind |-> "InvalidHex", len |-> 0]]
        ELSE IF len = Sha1HexLen \/ len = Sha256HexLen
        THEN [ok |-> TRUE,
              hash |-> [kind |-> IF len = Sha1HexLen THEN "Sha1" ELSE "Sha256",
                        bytes |-> DecodeToSlice(s, len \div 2).bytes],
              err |-> NoHashErr]
        ELSE [ok |-> FALSE, hash |-> NoHash,
              err |-> [kind |-> "InvalidLength", len |-> len]]

\* impl FromStr for GitCommitHash.
GitCommitHash_from_str(s) ==
    LET len == Len(s)
    IN  IF len = Sha1HexLen \/ len = Sha256HexLen
        THEN LET d == DecodeToSlice(s, len \div 2)
             IN  IF d.ok
                 THEN [ok |-> TRUE,
                       hash |-> [kind |-> IF len = Sha1HexLen THEN "Sha1" ELSE "Sha256",
                                 bytes |-> d.bytes],
                       err |-> NoHashErr]
                 ELSE [ok |-> FALSE, hash |-> NoHash,
                       err |-> [kind |-> "InvalidHex", len |-> 0]]
        ELSE [ok |-> FALSE, hash |-> NoHash,
              err |-> [kind |-> "InvalidLength", len |-> len]]

\* impl Display for GitCommitHash.
GitCommitHash_Display(h) == HexEncode(h.bytes)

\* A text with its lowercase hex digits in uppercase.
ToUpperHex(t) ==
    [i \in DOMAIN t |->
        IF \E v \in 11..16 : HexLower[v] = t[i]
        THEN HexUpper[CHOOSE v \in 11..16 : HexLower[v] = t[i]] ELSE t[i]]

\* Ord for [u8; N]: the order of the first bytes that differ.
RECURSIVE LexCmp(_, _)
LexCmp(x, y) ==
    IF x = <<>> /\ y = <<>> THEN "Equal"
    ELSE IF x = <<>> THEN "Less"
    ELSE IF y = <<>> THEN "Greater"
    ELSE IF Head(x) < Head(y) THEN "Less"
    ELSE IF Head(x) > Head(y) THEN "Greater"
    ELSE LexCmp(Tail(x), Tail(y))

\* The place of a variant in the declaration of GitCommitHash.
Discriminant(h) == IF h.kind = "Sha1" THEN 0 ELSE 1

\* An order of hashes that looks at the bytes alone.
GitCommitHash_cmp_BytesOnly(a, b) == LexCmp(a.bytes, b.bytes)

\* #[derive(PartialOrd, Ord)] for GitCommitHash: the variants in the order
\* they are declared in, and within a variant the bytes.
GitCommitHash_cmp(a, b) ==
    IF Discriminant(a) < Discriminant(b) THEN "Less"
    ELSE IF Discriminant(a) > Discriminant(b) THEN "Greater"
    ELSE LexCmp(a.bytes, b.bytes)

----------------------------------------------------------------------------
(* Path decomposition (camino's Utf8Path::components, which is             *)
(* std::path::Path::components).                                           *)

AsciiAlpha == AsciiUpper \cup AsciiLower

\* std::path::is_separator for the build target.
IsSep(c) == c = "/" \/ (windows /\ c = "\\")

\* The pieces of a path between separators of the build target.
SplitSep(s) == SplitAny(s, IF windows THEN {"/", "\\"} ELSE {"/"})

\* Length of the prefix std's parse_prefix finds: none on a Unix build; on a
\* Windows build a drive ("C:") or a UNC-shaped prefix ("//server/share").
PathPrefixLen(p) ==
    IF ~windows THEN 0
    ELSE IF Len(p) >= 2 /\ IsSep(p[1]) /\ IsSep(p[2])
    THEN LET toks == SplitSep(SubSeq(p, 3, Len(p)))
             server == toks[1]
             share == IF Len(toks) >= 2 THEN toks[2] ELSE <<>>
         IN  2 + Len(server) + (IF Len(share) > 0 THEN 1 + Len(share) ELSE 0)
    ELSE IF Len(p) >= 2 /\ p[2] = ":" /\ p[1] \in AsciiAlpha THEN 2
    ELSE 0

\* A piece of the path body as a component: ".." is ParentDir, any other
\* piece a Normal name.
NameComponent(t) ==
    IF t = <<".", ".">> THEN [kind |-> "ParentDir", str |-> t]
    ELSE [kind |-> "Normal", str |-> t]

\* The pieces Path::components yields after the root: empty pieces and "."
\* pieces are skipped.
NameComponents(toks) ==
    LET Kept(t) == t # <<>> /\ t # <<".">>
        names == SelectSeq(toks, Kept)
    IN  [i \in DOMAIN names |-> NameComponent(names[i])]

\* The components of the path after its prefix: the root if there is one,
\* else a leading "." kept as CurDir, then the names.
BodyComponents(toks, hasRoot) ==
    (IF hasRoot THEN <<[kind |-> "RootDir", str |-> <<"/">>]>>
     ELSE IF toks[1] = <<".">> THEN <<[kind |-> "CurDir", str |-> <<".">>]>>
     ELSE <<>>)
    \o NameComponents(toks)

\* The components of a path whose prefix is its first n characters. A UNC
\* prefix implies a root.
ComponentsAfterPrefix(p, n, body) ==
    (IF n > 0 THEN <<[kind |-> "Prefix", str |-> SubSeq(p, 1, n)]>> ELSE <<>>)
    \o BodyComponents(SplitSep(body),
                      (n > 0 /\ IsSep(p[1])) \/ (body # <<>> /\ IsSep(body[1])))

\* Path::components: an optional prefix, an optional root, a leading "." kept
\* as CurDir, then the pieces; empty pieces and later "." pieces are skipped.
Components(p) ==
    LET n == PathPrefixLen(p)
    IN  ComponentsAfterPrefix(p, n, SubSeq(p, n + 1, Len(p)))

----------------------------------------------------------------------------
(* GitStub (git_stub.rs). *)

NoStub == [commit |-> NoHash, path |-> <<>>, needs_rewrite |-> FALSE]

NoErr == [kind |-> "None", path |-> <<>>, component |-> <<>>,
          text |-> <<>>, inner |-> NoHashErr]

StubErr(kind) == [ok |-> FALSE, stub |-> NoStub, err |-> [NoErr EXCEPT !.kind = kind]]

\* Iterator::find_map over the components: the first that is not Normal.
FirstNonNormal(cs) ==
    LET bad == {i \in DOMAIN cs : cs[i].kind # "Normal"}
    IN  IF bad = {} THEN [some |-> FALSE, str |-> <<>>]
        ELSE [some |-> TRUE,
              str |-> cs[CHOOSE i \in bad : \A j \in bad : i <= j].str]

\* fn find_non_normal_component: the first component that is not a plain name.
find_non_normal_component(path) == FirstNonNormal(Components(path))

\* GitStub::new with the components looked at before the newline.
GitStub_new_ComponentsFirst(commit, raw) ==
    LET needs_rewrite == Contains(raw, "\\")
        normalized == Replace(raw, "\\", "/")
        component == find_non_normal_component(normalized)
    IN  IF normalized = <<>> THEN StubErr("EmptyPath")
        ELSE IF component.some
        THEN [ok |-> FALSE, stub |-> NoStub,
              err |-> [NoErr EXCEPT !.kind = "InvalidPathComponent",
                                    !.path = normalized,
                                    !.component = component.str]]
        ELSE IF Contains(normalized, "\n") THEN StubErr("NewlineInPath")
        ELSE [ok |-> TRUE,
              stub |-> [commit |-> commit, path |-> normalized,
                        needs_rewrite |-> needs_rewrite],
              err |-> NoErr]

\* GitStub::new.
GitStub_new(commit, raw) ==
    LET needs_rewrite == Contains(raw, "\\")
        normalized == Replace(raw, "\\", "/")
        component == find_non_normal_component(normalized)
    IN  IF normalized = <<>> THEN StubErr("EmptyPath")
        ELSE IF Contains(normalized, "\n") THEN StubErr("NewlineInPath")
        ELSE IF component.some
        THEN [ok |-> FALSE, stub |-> NoStub,
              err |-> [NoErr EXCEPT !.kind = "InvalidPathComponent",
                                    !.path = normalized,
                                    !.component = component.str]]
        ELSE [ok |-> TRUE,
              stub |-> [commit |-> commit, path |-> normalized,
                        needs_rewrite |-> needs_rewrite],
              err |-> NoErr]

\* The Display form with the commit in uppercase hex.
GitStub_Display_UpperHex(stub) ==
    ToUpperHex(GitCommitHash_Display(stub.commit)) \o <<":">> \o stub.path

\* impl Display for GitStub: "<commit>:<path>".
GitStub_Display(stub) == GitCommitHash_Display(stub.commit) \o <<":">> \o stub.path

\* The file contents without the final newline.
to_file_contents_NoNewline(stub) == GitStub_Display(stub)

\* GitStub::to_file_contents: the Display form and one newline.
to_file_contents(stub) == GitStub_Display(stub) \o <<"\n">>

\* GitStub::from_str without the uppercase-hex signal.
GitStub_from_str_NoCaseCheck(s) ==
    LET needs_rewrite == ~EndsWith(s, "\n") \/ Len(Trim(s)) + 1 # Len(s)
        trimmed == Trim(s)
        sp == SplitOnce(trimmed, ":")
        commit == GitCommitHash_from_str(sp.left)
        made == GitStub_new(commit.hash, sp.right)
    IN  IF trimmed = <<>> THEN StubErr("EmptyInput")
        ELSE IF ~sp.found
        THEN [ok |-> FALSE, stub |-> NoStub,
              err |-> [NoErr EXCEPT !.kind = "InvalidFormat", !.text = trimmed]]
        ELSE IF ~commit.ok
        THEN [ok |-> FALSE, stub |-> NoStub,
              err |-> [NoErr EXCEPT !.kind = "InvalidCommitHash", !.inner = commit.err]]
        ELSE IF ~made.ok THEN made
        ELSE [made EXCEPT !.stub.needs_rewrite = made.stub.needs_rewrite \/ needs_rewrite]

\* impl FromStr for GitStub.
GitStub_from_str(s) ==
    LET needs_rewrite == ~EndsWith(s, "\n") \/ Len(Trim(s)) + 1 # Len(s)
        trimmed == Trim(s)
        sp == SplitOnce(trimmed, ":")
        commit == GitCommitHash_from_str(sp.left)
        has_uppercase_hex == \E i \in DOMAIN sp.left : sp.left[i] \in AsciiUpper
        made == GitStub_new(commit.hash, sp.right)
    IN  IF trimmed = <<>> THEN StubErr("EmptyInput")
        ELSE IF ~sp.found
        THEN [ok |-> FALSE, stub |-> NoStub,
              err |-> [NoErr EXCEPT !.kind = "InvalidFormat", !.text = trimmed]]
        ELSE IF ~commit.ok
        THEN [ok |-> FALSE, stub |-> NoStub,
              err |-> [NoErr EXCEPT !.kind = "InvalidCommitHash", !.inner = commit.err]]
        ELSE IF ~made.ok THEN made
        ELSE [made EXCEPT !.stub.needs_rewrite =
                  made.stub.needs_rewrite \/ needs_rewrite \/ has_uppercase_hex]

\* impl PartialEq for Utf8Path: paths are equal when their components are.
PathEq(a, b) == Components(a) = Components(b)

\* impl Hash for Utf8Path: what the path feeds the hasher, component by
\* component.
PathHash(p) == Components(p)

\* A derived PartialEq, which would compare every field.
GitStub_eq_Derived(a, b) ==
    a.commit = b.commit /\ PathEq(a.path, b.path) /\ a.needs_rewrite = b.needs_rewrite

\* impl PartialEq for GitStub: commit and path, not needs_rewrite.
GitStub_eq(a, b) == a.commit = b.commit /\ PathEq(a.path, b.path)

\* impl Hash for GitStub: what a stub feeds the hasher.
GitStub_hash(stub) == <<stub.commit.kind, stub.commit.bytes, PathHash(stub.path)>>

\* HashSet::insert: the value is added unless the set holds an element with
\* the same hash that is equal to it.
HashSetInsert(hs, stub) ==
    IF \E e \in hs : GitStub_hash(e) = GitStub_hash(stub) /\ GitStub_eq(e, stub)
    THEN hs ELSE hs \cup {stub}

----------------------------------------------------------------------------
(* The inputs the runs are given. *)

Fill(n, c) == [i \in 1..n |-> c]

SetAt(s, k, c) == [i \in DOMAIN s |-> IF i = k THEN c ELSE s[i]]

\* Texts handed to GitCommitHash::from_str: every length around the two
\* accepted ones, in lower, upper and mixed case, with a non-hex character or
\* a blank put first or last.
HashLens == {0, 1, Sha1HexLen - 1, Sha1HexLen, Sha1HexLen + 1,
             Sha256HexLen - 1, Sha256HexLen, Sha256HexLen + 1}

HashStrs ==
    LET plain == {Fill(n, c) : n \in HashLens, c \in {"a", "F", "0", "9"}}
    IN  plain \cup {SetAt(s, k, d) : s \in plain, k \in {1, Sha1HexLen},
                                     d \in {"g", " ", "B", "c"}}

Sha1Sample == [kind |-> "Sha1", bytes |-> [i \in 1..20 |-> (i * 13) % 256]]

Sha256Sample == [kind |-> "Sha256", bytes |-> [i \in 1..32 |-> (i * 7 + 161) % 256]]

ToUpper(s) ==
    [i \in DOMAIN s |->
        IF \E v \in 1..16 : HexLower[v] = s[i]
        THEN HexUpper[CHOOSE v \in 1..16 : HexLower[v] = s[i]] ELSE s[i]]

\* The pieces paths are built from: a plain name, "..", ".", the empty piece
\* (a leading, doubled or trailing separator), a name with a colon that is a
\* drive on Windows, a name ending in a blank, and a newline.
PathPieces == {<<"a">>, <<".", ".">>, <<".">>, <<>>, <<"C", ":">>,
               <<"a", " ">>, <<"\n">>}

RECURSIVE Join(_, _)
Join(cs, sep) ==
    IF Len(cs) = 0 THEN <<>>
    ELSE IF Len(cs) = 1 THEN cs[1]
    ELSE cs[1] \o <<sep>> \o Join(Tail(cs), sep)

Paths ==
    {Join(cs, sep) : cs \in UNION {[1..n -> PathPieces] : n \in 1..MaxComponents},
                     sep \in {"/", "\\"}}

\* Commit texts put in front of the colon of a stub text.
StubCommitStrs ==
    {GitCommitHash_Display(Sha1Sample), GitCommitHash_Display(Sha256Sample),
     ToUpper(GitCommitHash_Display(Sha1Sample)),
     SetAt(GitCommitHash_Display(Sha1Sample), 2, "g"),
     SubSeq(GitCommitHash_Display(Sha1Sample), 1, Sha1HexLen - 1),
     <<>>}

Leads == {<<>>, <<" ">>}

Trails == {<<>>, <<"\n">>, <<"\n", "\n">>, <<"\r", "\n">>, <<" ", "\n">>, <<"\n", " ">>}

PlainPaths == {<<"a">>, <<"a", "/", "a">>, <<"a", "\\", "a">>,
               <<"a", ":", "a">>, <<>>, <<".", ".">>}

\* Texts handed to GitStub::from_str: every path in the canonical wrapping and
\* without the final newline, and a few paths in every wrapping.
StubTexts ==
    {GitCommitHash_Display(c) \o <<":">> \o p \o t :
        c \in {Sha1Sample, Sha256Sample}, p \in Paths, t \in {<<>>, <<"\n">>}}
    \cup
    {l \o c \o sep \o p \o t :
        l \in Leads, c \in StubCommitStrs, sep \in {<<":">>, <<>>},
        p \in PlainPaths, t \in Trails}

----------------------------------------------------------------------------
(* Path operations of camino's Utf8Path (std::path::Path) the Materializer  *)
(* uses.                                                                    *)

Last(s) == s[Len(s)]

Front(s) == SubSeq(s, 1, Len(s) - 1)

NoText == [some |-> FALSE, str |-> <<>>]

SomeText(t) == [some |-> TRUE, str |-> t]

\* The last component of a component list when it is a Normal name.
LastNormal(cs) ==
    IF cs # <<>> /\ Last(cs).kind = "Normal" THEN SomeText(Last(cs).str) ELSE NoText

\* Path::file_name.
file_name(p) == LastNormal(Components(p))

\* The position of the last '.' of a file name, 0 when there is none.
LastDot(name) ==
    LET dots == {i \in DOMAIN name : name[i] = "."}
    IN  IF dots = {} THEN 0 ELSE CHOOSE i \in dots : \A j \in dots : j <= i

\* The extension of a file name: what follows its last '.', unless the name
\* has no '.' or only a leading one.
ExtensionOf(name, dot) ==
    IF dot <= 1 THEN NoText ELSE SomeText(SubSeq(name, dot + 1, Len(name)))

\* The stem of a file name: what precedes the last '.', or the whole name
\* when it has no extension.
StemOf(name, dot) == IF dot <= 1 THEN name ELSE SubSeq(name, 1, dot - 1)

NameExtension(fname) ==
    IF fname.some THEN ExtensionOf(fname.str, LastDot(fname.str)) ELSE NoText

\* Path::extension.
extension(p) == NameExtension(file_name(p))

\* The path text without the separators and "." pieces that follow its last
\* name.
RECURSIVE StripTrailing(_)
StripTrailing(p) ==
    IF p = <<>> THEN p
    ELSE IF IsSep(Last(p)) THEN StripTrailing(Front(p))
    ELSE IF Last(p) = "." /\ Len(p) >= 2 /\ IsSep(p[Len(p) - 1])
    THEN StripTrailing(Front(p))
    ELSE p

\* The path text cut at the end of the stem of its file name.
CutAtStem(p, fname) ==
    IF ~fname.some THEN p
    ELSE SubSeq(p, 1, Len(StripTrailing(p)) - Len(fname.str)
                        + Len(StemOf(fname.str, LastDot(fname.str))))

\* Path::with_extension(""): the path without the extension of its file name.
with_extension_empty(p) == CutAtStem(p, file_name(p))

HasKind(cs, kind) == \E i \in DOMAIN cs : cs[i].kind = kind

\* std::path::MAIN_SEPARATOR of the build target.
MainSep == IF windows THEN "\\" ELSE "/"

\* PathBuf::push of a path that has neither a root nor a prefix.
PushRelative(base, p) ==
    IF base = <<>> \/ IsSep(Last(base)) THEN base \o p ELSE base \o <<MainSep>> \o p

\* Path::join (PathBuf::push): a path with a prefix replaces the base; a path
\* with a root replaces everything after the prefix of the base; any other
\* path is appended after a separator.
JoinComponents(base, p, cs) ==
    IF HasKind(cs, "Prefix") THEN p
    ELSE IF HasKind(cs, "RootDir") THEN SubSeq(base, 1, PathPrefixLen(base)) \o p
    ELSE PushRelative(base, p)

join(base, p) == JoinComponents(base, p, Components(p))

\* The directory entry a list of components names, as the operating system
\* resolves it: "." stays, ".." leaves the last name (the root is its own
\* parent).
RECURSIVE ResolveComponents(_, _)
ResolveComponents(cs, at) ==
    IF cs = <<>> THEN at
    ELSE ResolveComponents(Tail(cs),
            CASE Head(cs).kind = "Prefix" -> <<Head(cs).str>>
              [] Head(cs).kind = "RootDir" -> at \o <<Head(cs).str>>
              [] Head(cs).kind = "CurDir" -> at
              [] Head(cs).kind = "Normal" -> at \o <<Head(cs).str>>
              [] Head(cs).kind = "ParentDir" ->
                    IF at = <<>> \/ Last(at) = <<".", ".">> THEN at \o <<Head(cs).str>>
                    ELSE IF Last(at) = <<"/">> THEN at
                    ELSE Front(at))

\* The location of a path, relative to the working directory unless rooted.
Location(p) == ResolveComponents(Components(p), <<>>)

\* Path::parent: the path without its last component; none for an empty
\* path, a root or a prefix.
ParentOf(cs) ==
    IF cs = <<>> \/ Last(cs).kind \in {"RootDir", "Prefix"}
    THEN [some |-> FALSE, loc |-> <<>>]
    ELSE [some |-> TRUE, loc |-> ResolveComponents(Front(cs), <<>>)]

parent(p) == ParentOf(Components(p))

\* One location lies in the directory tree under another.
Under(loc, dir) == Len(loc) >= Len(dir) /\ SubSeq(loc, 1, Len(dir)) = dir

----------------------------------------------------------------------------
(* The world a Materializer runs in: one repository, the environment        *)
(* variables, and the outcomes of the processes it launches.                *)

\* The repository the runs work on, as the working directory sees it.
RepoLoc == << <<"r">> >>

\* Where `jj git root` says the Git store of the repository is.
GitRootText == <<"/", "g", "\n">>

ShallowName == <<"s", "h", "a", "l", "l", "o", "w">>

\* The marker file a shallow clone has in its Git store.
ShallowLoc == << <<"/">>, <<"g">>, ShallowName >>

\* std::env::var: a value, NotPresent or NotUnicode.
NotPresent == [state |-> "NotPresent", value |-> <<>>]

NotUnicode == [state |-> "NotUnicode", value |-> <<>>]

EnvText(t) == [state |-> "Ok", value |-> t]

\* Values of $GIT and $JJ: unset, blank, a path with blanks around it, and
\* bytes that are not UTF-8.
EnvValues == {NotPresent, EnvText(<<" ">>), EnvText(<<" ", "v", "\n">>), NotUnicode}

\* Something an operation did to the world: a file system call at a location
\* or a process launch of a binary, with its outcome.
Effect(op, at, note, data) == [op |-> op, at |-> at, note |-> note, data |-> data]

\* What fs::metadata, then is_dir, report for a path.
MetadataOf(p) == IF Location(p) = RepoLoc THEN world.root ELSE "missing"

\* Path::try_exists on a marker: a directory ("yes") and a file, as a linked
\* working tree has for .git, both exist.
TryExists(state) == IF state = "file" THEN "yes" ELSE state

\* What Path::try_exists reports for a marker of the repository.
MarkerOf(repo_root, state) ==
    IF Location(repo_root) = RepoLoc THEN TryExists(state) ELSE "no"

\* The backend's tool finds a repository of its kind at repo_root.
HasRepo(name, repo_root) ==
    /\ Location(repo_root) = RepoLoc
    /\ world.root = "dir"
    /\ TryExists(IF name = "Jj" THEN world.jj ELSE world.git) = "yes"

\* A process that could not be launched, and one that exited with a failure:
\* Output has the exit status, stdout and stderr.
SpawnFailure ==
    [spawned |-> FALSE, success |-> FALSE, status |-> "none", stdout |-> <<>>,
     stderr |-> <<>>, io |-> FALSE]

ExitFailure ==
    [spawned |-> TRUE, success |-> FALSE, status |-> "exit status: 128",
     stdout |-> <<>>, stderr |-> <<" ", "e", "\n">>, io |-> FALSE]

ExitSuccess(stdout, io) ==
    [spawned |-> TRUE, success |-> TRUE, status |-> "exit status: 0",
     stdout |-> stdout, stderr |-> <<>>, io |-> io]

\* What `git rev-parse --is-shallow-repository` prints: the answer, or the
\* option itself when the tool does not know it.
GitShallowStdout ==
    {IF ShallowLoc \in DOMAIN fs THEN <<"t", "r", "u", "e", "\n">>
                                 ELSE <<"f", "a", "l", "s", "e", "\n">>,
     <<"-", "\n">>}

\* The outcomes of the shallow check's process: it may fail to start or exit
\* with a failure anywhere; it answers only in a repository of its kind. For
\* jj the outcome includes whether probing the marker file fails.
ShallowOutcomes(vcs, repo_root) ==
    {SpawnFailure, ExitFailure}
    \cup (IF ~HasRepo(vcs.name, repo_root) THEN {}
          ELSE IF vcs.name = "Git"
          THEN {ExitSuccess(out, FALSE) : out \in GitShallowStdout}
          ELSE {ExitSuccess(GitRootText, io) : io \in BOOLEAN}
               \cup {ExitSuccess(<<"\n">>, FALSE)})

----------------------------------------------------------------------------
(* Vcs (vcs.rs). *)

NoVcs == [name |-> "None", binary |-> <<>>]

read_vcs_env_Untrimmed(v, default) ==
    IF v.state = "Ok"
    THEN [ok |-> TRUE, binary |-> IF v.value = <<>> THEN default ELSE v.value]
    ELSE IF v.state = "NotPresent" THEN [ok |-> TRUE, binary |-> default]
    ELSE [ok |-> FALSE, binary |-> <<>>]

\* fn read_vcs_env.
read_vcs_env(v, default) ==
    IF v.state = "Ok"
    THEN [ok |-> TRUE,
          binary |-> IF Trim(v.value) = <<>> THEN default ELSE Trim(v.value)]
    ELSE IF v.state = "NotPresent" THEN [ok |-> TRUE, binary |-> default]
    ELSE [ok |-> FALSE, binary |-> <<>>]

VcsOf(name, b) ==
    IF b.ok THEN [ok |-> TRUE, vcs |-> [name |-> name, binary |-> b.binary], err |-> "None"]
    ELSE [ok |-> FALSE, vcs |-> NoVcs, err |-> "NonUtf8"]

\* Vcs::git.
Vcs_git == VcsOf("Git", read_vcs_env(world.GIT, <<"g", "i", "t">>))

\* Vcs::jj.
Vcs_jj == VcsOf("Jj", read_vcs_env(world.JJ, <<"j", "j">>))

DetectErr(kind, log) == [ok |-> FALSE, vcs |-> NoVcs, err |-> kind, log |-> log]

\* `Self::jj()?` and `Self::git()?` in detect: a VcsEnvError becomes
\* VcsDetectError::Env.
DetectFound(made, log) ==
    IF made.ok THEN [ok |-> TRUE, vcs |-> made.vcs, err |-> "None", log |-> log]
    ELSE DetectErr("Env", log)

DetectMarkers_GitFirst(jj, git, log) ==
    IF git = "yes" THEN DetectFound(Vcs_git, log)
    ELSE IF git = "ioerr" THEN DetectErr("Io", log)
    ELSE IF jj = "yes" THEN DetectFound(Vcs_jj, log)
    ELSE IF jj = "ioerr" THEN DetectErr("Io", log)
    ELSE DetectErr("NotFound", log)

\* Vcs::detect after the metadata of repo_root has been read.
DetectMarkers(jj, git, log) ==
    IF jj = "yes" THEN DetectFound(Vcs_jj, log)
    ELSE IF jj = "ioerr" THEN DetectErr("Io", log)
    ELSE IF git = "yes" THEN DetectFound(Vcs_git, log)
    ELSE IF git = "ioerr" THEN DetectErr("Io", log)
    ELSE DetectErr("NotFound", log)

\* The file system calls of detect, up to the one that decides.
DetectLog(repo_root, meta, jj) ==
    <<Effect("metadata", Location(repo_root), meta, <<>>)>>
    \o (IF meta # "dir" THEN <<>>
        ELSE <<Effect("try_exists", Location(repo_root) \o << <<".", "j", "j">> >>,
                      jj, <<>>)>>)
    \o (IF meta # "dir" \/ jj # "no" THEN <<>>
        ELSE <<Effect("try_exists", Location(repo_root) \o << <<".", "g", "i", "t">> >>,
                      MarkerOf(repo_root, world.git), <<>>)>>)

DetectFrom(meta, jj, git, log) ==
    IF meta = "file" THEN DetectErr("NotADirectory", log)
    ELSE IF meta = "missing" THEN DetectErr("PathNotFound", log)
    ELSE IF meta = "ioerr" THEN DetectErr("Io", log)
    ELSE DetectMarkers(jj, git, log)

\* Vcs::detect.
Vcs_detect(repo_root) ==
    DetectFrom(MetadataOf(repo_root), MarkerOf(repo_root, world.jj),
               MarkerOf(repo_root, world.git),
               DetectLog(repo_root, MetadataOf(repo_root), MarkerOf(repo_root, world.jj)))

\* What a ShallowCloneError or a ReadContentsError carries.
NoDetail ==
    [vcs_name |-> "None", binary_path |-> <<>>, repo_root |-> <<>>, stub |-> NoStub,
     exit_status |-> "none", stdout |-> <<>>, stderr |-> <<>>]

ShallowErr(kind, log) ==
    [ok |-> FALSE, value |-> FALSE, err |-> kind, log |-> log, detail |-> NoDetail]

ShallowOk(value, log) ==
    [ok |-> TRUE, value |-> value, err |-> "None", log |-> log, detail |-> NoDetail]

\* ShallowCloneError::VcsFailed with the exit status and the trimmed stderr.
ShallowFailed(name, out, log) ==
    [ShallowErr("VcsFailed", log) EXCEPT
        !.detail = [NoDetail EXCEPT !.vcs_name = name, !.exit_status = out.status,
                                    !.stderr = Trim(out.stderr)]]

\* ShallowCloneError::UnexpectedOutput with the trimmed stdout.
ShallowUnexpected(name, stdout, log) ==
    [ShallowErr("UnexpectedOutput", log) EXCEPT
        !.detail = [NoDetail EXCEPT !.vcs_name = name, !.stdout = stdout]]

SpawnNote(out) ==
    IF ~out.spawned THEN "spawn_failed"
    ELSE IF out.success THEN "exit_success" ELSE "exit_failure"

\* The Git arm with every answer but "true" taken for "not shallow".
GitShallowAnswer_Lenient(out, answer, log) ==
    IF ~out.success THEN ShallowFailed("Git", out, log)
    ELSE IF answer = <<"t", "r", "u", "e">> THEN ShallowOk(TRUE, log)
    ELSE ShallowOk(FALSE, log)

\* The Git arm of is_shallow_clone, on the trimmed stdout of the process.
GitShallowAnswer(out, answer, log) ==
    IF ~out.success THEN ShallowFailed("Git", out, log)
    ELSE IF answer = <<"t", "r", "u", "e">> THEN ShallowOk(TRUE, log)
    ELSE IF answer = <<"f", "a", "l", "s", "e">> THEN ShallowOk(FALSE, log)
    ELSE ShallowUnexpected("Git", answer, log)

\* The marker probe at the end of the jj arm: shallow_path.try_exists().
JjMarkerProbe(out, shallow_loc, log) ==
    IF out.io
    THEN ShallowErr("Io", log \o <<Effect("try_exists", shallow_loc, "ioerr", <<>>)>>)
    ELSE ShallowOk(shallow_loc \in DOMAIN fs,
                   log \o <<Effect("try_exists", shallow_loc,
                                   IF shallow_loc \in DOMAIN fs THEN "yes" ELSE "no",
                                   <<>>)>>)

\* The jj arm of is_shallow_clone, on the trimmed stdout of the process.
JjShallowAnswer(out, git_root, log) ==
    IF ~out.success THEN ShallowFailed("Jj", out, log)
    ELSE IF git_root = <<>> THEN ShallowUnexpected("Jj", git_root, log)
    ELSE JjMarkerProbe(out, Location(join(git_root, ShallowName)), log)

ShallowAnswer(vcs, out, log) ==
    IF ~out.spawned
    THEN [ShallowErr("SpawnFailed", log) EXCEPT
             !.detail = [NoDetail EXCEPT !.vcs_name = vcs.name,
                                         !.binary_path = vcs.binary]]
    ELSE IF vcs.name = "Git" THEN GitShallowAnswer(out, Trim(out.stdout), log)
    ELSE JjShallowAnswer(out, Trim(out.stdout), log)

\* The arguments of the shallow check's command.
ShallowArgs(vcs) ==
    IF vcs.name = "Git" THEN <<"rev-parse", "--is-shallow-repository">>
    ELSE <<"git", "root", "--ignore-working-copy">>

\* Vcs::is_shallow_clone, given the outcome of the process it launches.
is_shallow_clone(vcs, repo_root, out) ==
    ShallowAnswer(vcs, out,
        <<Effect("spawn", [vcs |-> vcs, cwd |-> repo_root, args |-> ShallowArgs(vcs)],
                 SpawnNote(out), out.stdout)>>)

\* The blobs the history of the repository holds, by commit and path; their
\* contents begin or end with white space.
HistoryObjects ==
    {[commit |-> Sha1Sample, path |-> <<"a">>, content |-> <<"x", "\n">>],
     [commit |-> Sha1Sample, path |-> <<"d", "/", "a">>, content |-> <<" ", "y">>]}

InHistory(stub) ==
    \E b \in HistoryObjects : b.commit = stub.commit /\ b.path = stub.path

BlobOf(stub) ==
    (CHOOSE b \in HistoryObjects : b.commit = stub.commit /\ b.path = stub.path).content

\* What the content-read process does for a stub: it may fail to start or
\* exit with a failure anywhere; otherwise it prints the blob if the
\* repository has it and fails if not.
FetchProcess(how, vcs, stub, repo_root) ==
    IF how = "spawn_failed" THEN SpawnFailure
    ELSE IF how # "exit_failure" /\ HasRepo(vcs.name, repo_root) /\ InHistory(stub)
    THEN ExitSuccess(BlobOf(stub), FALSE)
    ELSE ExitFailure

ReadResult_TrimmingStdout(vcs, stub, repo_root, out, log) ==
    IF ~out.spawned
    THEN [ok |-> FALSE, content |-> <<>>, err |-> "SpawnFailed", log |-> log,
          detail |-> [NoDetail EXCEPT !.vcs_name = vcs.name, !.binary_path = vcs.binary,
                                      !.repo_root = repo_root]]
    ELSE IF out.success
    THEN [ok |-> TRUE, content |-> Trim(out.stdout), err |-> "None", log |-> log,
          detail |-> NoDetail]
    ELSE [ok |-> FALSE, content |-> <<>>, err |-> "VcsFailed", log |-> log,
          detail |-> [NoDetail EXCEPT !.vcs_name = vcs.name, !.stub = stub,
                                      !.exit_status = out.status,
                                      !.stderr = Trim(out.stderr)]]

\* read_git_stub_contents after cmd.output(): SpawnFailed when the process
\* could not be launched, stdout as it is on success, VcsFailed otherwise.
ReadResult(vcs, stub, repo_root, out, log) ==
    IF ~out.spawned
    THEN [ok |-> FALSE, content |-> <<>>, err |-> "SpawnFailed", log |-> log,
          detail |-> [NoDetail EXCEPT !.vcs_name = vcs.name, !.binary_path = vcs.binary,
                                      !.repo_root = repo_root]]
    ELSE IF out.success
    THEN [ok |-> TRUE, content |-> out.stdout, err |-> "None", log |-> log,
          detail |-> NoDetail]
    ELSE [ok |-> FALSE, content |-> <<>>, err |-> "VcsFailed", log |-> log,
          detail |-> [NoDetail EXCEPT !.vcs_name = vcs.name, !.stub = stub,
                                      !.exit_status = out.status,
                                      !.stderr = Trim(out.stderr)]]

\* The arguments of the content-read command: `cat-file blob <commit>:<path>`
\* for Git, `file show --ignore-working-copy --revision <commit> -- <path>`
\* for jj.
ReadArgs_NoMarker(vcs, stub) ==
    IF vcs.name = "Git" THEN <<"cat-file", "blob", GitStub_Display(stub)>>
    ELSE <<"file", "show", "--ignore-working-copy", "--revision",
           GitCommitHash_Display(stub.commit), stub.path>>

ReadArgs(vcs, stub) ==
    IF vcs.name = "Git" THEN <<"cat-file", "blob", GitStub_Display(stub)>>
    ELSE <<"file", "show", "--ignore-working-copy", "--revision",
           GitCommitHash_Display(stub.commit), "--", stub.path>>

\* Vcs::read_git_stub_contents, given the outcome of the process it launches.
read_git_stub_contents(vcs, stub, repo_root, out) ==
    ReadResult(vcs, stub, repo_root, out,
        <<Effect("spawn", [vcs |-> vcs, cwd |-> repo_root, args |-> ReadArgs(vcs, stub)],
                 SpawnNote(out), out.stdout)>>)

----------------------------------------------------------------------------
(* Materializer (materialize.rs). *)

NoMat == [repo_root |-> <<>>, output_dir |-> <<>>,
          emit_cargo_directives |-> FALSE, vcs |-> NoVcs]

NoMatErr == [kind |-> "None", inner |-> "None"]

MatErr(kind, inner) == [kind |-> kind, inner |-> inner]

\* What check_shallow makes of the answer of is_shallow_clone.
ShallowVerdict(probe) ==
    [err |-> IF ~probe.ok THEN MatErr("ShallowCloneCheck", probe.err)
             ELSE IF probe.value THEN MatErr("ShallowClone", "None")
             ELSE NoMatErr,
     log |-> probe.log]

\* A check_shallow that lets a shallow clone pass.
check_shallow_AcceptingShallow(vcs, repo_root, out) ==
    [ShallowVerdict(is_shallow_clone(vcs, repo_root, out)) EXCEPT
        !.err = IF @.kind = "ShallowClone" THEN NoMatErr ELSE @]

\* Materializer::check_shallow.
check_shallow(vcs, repo_root, out) ==
    ShallowVerdict(is_shallow_clone(vcs, repo_root, out))

Built(ok, m, err, log) == [ok |-> ok, mat |-> m, err |-> err, log |-> log]

\* The end of both constructors: the Materializer, unless the check failed.
Checked(repo_root, output_dir, emit, vcs, verdict, log) ==
    IF verdict.err.kind # "None" THEN Built(FALSE, NoMat, verdict.err, log \o verdict.log)
    ELSE Built(TRUE,
               [repo_root |-> repo_root, output_dir |-> output_dir,
                emit_cargo_directives |-> emit, vcs |-> vcs],
               NoMatErr, log \o verdict.log)

\* Both constructors after Vcs::detect.
Detected(repo_root, output_dir, emit, found, out) ==
    IF ~found.ok THEN Built(FALSE, NoMat, MatErr("VcsDetect", found.err), found.log)
    ELSE Checked(repo_root, output_dir, emit, found.vcs,
                 check_shallow(found.vcs, repo_root, out), found.log)

\* Materializer::standard.
Materializer_standard(repo_root, output_dir, out) ==
    Detected(repo_root, output_dir, FALSE, Vcs_detect(repo_root), out)

GitStubVcsDir == <<"g", "i", "t", "-", "s", "t", "u", "b", "-", "v", "c", "s">>

\* Materializer::for_build_script: it panics unless OUT_DIR and
\* CARGO_MANIFEST_DIR are set.
Materializer_for_build_script(repo_root, out_dir, manifest_dir, out) ==
    IF out_dir.state # "Ok" \/ manifest_dir.state # "Ok"
    THEN Built(FALSE, NoMat, MatErr("Panic", "None"), <<>>)
    ELSE Detected(join(manifest_dir.value, repo_root),
                  join(out_dir.value, GitStubVcsDir), TRUE,
                  Vcs_detect(join(manifest_dir.value, repo_root)), out)

\* Materializer::with_vcs with the shallow check made on the backend the
\* Materializer already has.
Materializer_with_vcs_CheckingOld(self, vcs, out) ==
    Checked(self.repo_root, self.output_dir, self.emit_cargo_directives, vcs,
            check_shallow(self.vcs, self.repo_root, out), <<>>)

\* Materializer::with_vcs.
Materializer_with_vcs(self, vcs, out) ==
    Checked(self.repo_root, self.output_dir, self.emit_cargo_directives, vcs,
            check_shallow(vcs, self.repo_root, out), <<>>)

GitstubExt == <<"g", "i", "t", "s", "t", "u", "b">>

\* What the environment does to one materialize call: the step it makes
\* fail (launching the content-read process, its exit, making directories,
\* writing the temporary file, renaming it, the sync of the directories
\* after the rename), or none.
MaterializeOutcomes ==
    {"stdout_closed", "spawn_failed", "exit_failure", "mkdir_failed", "write_failed",
     "rename_failed", "dirsync_failed", "none"}

\* The directories on the way to a location, the location included.
Prefixes(loc) == {SubSeq(loc, 1, k) : k \in 1..Len(loc)}

\* The file system with one file created or replaced.
Put(files, loc, content) ==
    [l \in DOMAIN files \cup {loc} |-> IF l = loc THEN content ELSE files[l]]

\* What materialize_inner leaves: its error if any, what it did, and the
\* files and directories after it.
Done(err, l, files, made) == [err |-> err, log |-> l, fs |-> files, dirs |-> made]

\* AtomicFile::new(output_path, DisallowOverwrite): the write fails when a
\* file is at the output path.
AtomicWrite_DisallowOverwrite(out_loc, content, o, l, made) ==
    IF o = "write_failed"
    THEN Done(MatErr("WriteOutput", "Write"),
              l \o <<Effect("write", out_loc, "write_failed", <<>>)>>, fs, made)
    ELSE IF o = "rename_failed" \/ out_loc \in made \/ out_loc \in DOMAIN fs
    THEN Done(MatErr("WriteOutput", "Rename"),
              l \o <<Effect("write", out_loc, "rename_failed", <<>>)>>, fs, made)
    ELSE Done(NoMatErr, l \o <<Effect("write", out_loc, "ok", content)>>,
              Put(fs, out_loc, content), made)

\* AtomicFile::new(output_path, AllowOverwrite).write(|f| f.write_all(&content)):
\* the file holds the content once the write has succeeded; a failure while
\* writing is Error::User, one while creating or renaming is Error::Internal
\* (a directory at the output path makes the rename fail). On a Unix target
\* the directories are synced after the rename, and a failure there is
\* Error::Internal with the file already in place.
AtomicWrite(out_loc, content, o, l, made) ==
    IF o = "write_failed"
    THEN Done(MatErr("WriteOutput", "Write"),
              l \o <<Effect("write", out_loc, "write_failed", <<>>)>>, fs, made)
    ELSE IF o = "rename_failed" \/ out_loc \in made
    THEN Done(MatErr("WriteOutput", "Rename"),
              l \o <<Effect("write", out_loc, "rename_failed", <<>>)>>, fs, made)
    ELSE IF o = "dirsync_failed" /\ ~windows
    THEN Done(MatErr("WriteOutput", "Rename"),
              l \o <<Effect("write", out_loc, "dirsync_failed", content)>>,
              Put(fs, out_loc, content), made)
    ELSE Done(NoMatErr, l \o <<Effect("write", out_loc, "ok", content)>>,
              Put(fs, out_loc, content), made)

\* fs::create_dir_all(parent) when the output path has a parent, then the
\* write. Making the directories fails when the environment says so or a
\* file is in the way; the empty path needs nothing made.
CreateParent(out_loc, content, o, l, par) ==
    IF ~par.some \/ par.loc = <<>> THEN AtomicWrite(out_loc, content, o, l, dirs)
    ELSE IF o = "mkdir_failed" \/ Prefixes(par.loc) \cap DOMAIN fs # {}
    THEN Done(MatErr("CreateDir", "Io"),
              l \o <<Effect("mkdir", par.loc, "failed", <<>>)>>, fs, dirs)
    ELSE AtomicWrite(out_loc, content, o,
                     l \o <<Effect("mkdir", par.loc, "ok", <<>>)>>,
                     dirs \cup Prefixes(par.loc))

\* materialize_inner after the content has been asked of the backend.
Fetched(output_path, o, fetched, l) ==
    IF ~fetched.ok
    THEN Done(MatErr("ReadContents", fetched.err), l \o fetched.log, fs, dirs)
    ELSE CreateParent(Location(output_path), fetched.content, o, l \o fetched.log,
                      parent(output_path))

\* materialize_inner after the stub file has been parsed.
Parsed(self, output_path, o, parsed, l) ==
    IF ~parsed.ok THEN Done(MatErr("InvalidGitStub", parsed.err.kind), l, fs, dirs)
    ELSE Fetched(output_path, o,
                 read_git_stub_contents(self.vcs, parsed.stub, self.repo_root,
                     FetchProcess(o, self.vcs, parsed.stub, self.repo_root)),
                 l)

\* materialize_inner from fs::read_to_string on.
ReadStub(self, full_loc, output_path, o, l) ==
    IF full_loc \notin DOMAIN fs
    THEN Done(MatErr("ReadGitStub", "Io"),
              l \o <<Effect("read", full_loc, "failed", <<>>)>>, fs, dirs)
    ELSE Parsed(self, output_path, o, GitStub_from_str(fs[full_loc]),
                l \o <<Effect("read", full_loc, "ok", fs[full_loc])>>)

\* Materializer::materialize_inner. The println! of the directive panics
\* when standard output cannot be written.
materialize_inner(self, git_stub_path, output_path, o) ==
    IF self.emit_cargo_directives /\ o = "stdout_closed"
    THEN Done(MatErr("Panic", "println"),
              <<Effect("directive", join(self.repo_root, git_stub_path), "panic", <<>>)>>,
              fs, dirs)
    ELSE ReadStub(self, Location(join(self.repo_root, git_stub_path)), output_path, o,
                  IF self.emit_cargo_directives
                  THEN <<Effect("directive", join(self.repo_root, git_stub_path),
                                "cargo::rerun-if-changed", <<>>)>>
                  ELSE <<>>)

\* What a materialize call returns and leaves.
Returned(done, path) ==
    [ok |-> done.err.kind = "None", err |-> done.err,
     path |-> IF done.err.kind = "None" THEN path ELSE <<>>,
     log |-> done.log, fs |-> done.fs, dirs |-> done.dirs]

NotGitStub == Returned(Done(MatErr("NotGitStub", "None"), <<>>, fs, dirs), <<>>)

\* Materializer::materialize without the check of the extension.
Materializer_materialize_Unchecked(self, git_stub_path, o) ==
    Returned(materialize_inner(self, git_stub_path,
                 join(self.output_dir, with_extension_empty(git_stub_path)), o),
             join(self.output_dir, with_extension_empty(git_stub_path)))

\* Materializer::materialize.
Materializer_materialize(self, git_stub_path, o) ==
    IF extension(git_stub_path) # SomeText(GitstubExt) THEN NotGitStub
    ELSE Returned(materialize_inner(self, git_stub_path,
                      join(self.output_dir, with_extension_empty(git_stub_path)), o),
                  join(self.output_dir, with_extension_empty(git_stub_path)))

\* Materializer::materialize_to.
Materializer_materialize_to(self, git_stub_path, output_path, o) ==
    IF extension(git_stub_path) # SomeText(GitstubExt) THEN NotGitStub
    ELSE Returned(materialize_inner(self, git_stub_path,
                      join(self.output_dir, output_path), o),
                  <<>>)

\* The values of the Materializer's variables in runs that have none.
NoArg == [repo_root |-> <<>>, vcs |-> NoVcs, stub_path |-> <<>>, output_path |-> <<>>]

NoRet == [op |-> "none", arg |-> NoArg, ok |-> FALSE, err |-> NoMatErr, path |-> <<>>]

NoWorld == [root |-> "missing", jj |-> "no", git |-> "no",
            GIT |-> NotPresent, JJ |-> NotPresent]

NoFiles == [l \in {} |-> <<>>]

\* No materialize call is in progress, none was made, no Vcs was used.
NoRun == <<>>

NoPrev == [ret |-> NoRet, fs |-> NoFiles, injected |-> "none"]

NoVres ==
    [op |-> "none", root |-> <<>>, ok |-> FALSE, vcs |-> NoVcs, err |-> "None",
     stub |-> NoStub, out |-> SpawnFailure, content |-> <<>>, value |-> FALSE,
     detail |-> NoDetail, log |-> <<>>]

CallsIdle ==
    /\ run = NoRun
    /\ prev = NoPrev
    /\ vres = NoVres

MatIdle ==
    /\ world = NoWorld
    /\ fs = NoFiles
    /\ dirs = {}
    /\ mat = NoMat
    /\ vetted = {}
    /\ ret = NoRet
    /\ effects = <<>>
    /\ calls = 0
    /\ CallsIdle

----------------------------------------------------------------------------
(* The runs of the git-stub crate: a value is parsed or constructed, written *)
(* back as text, and that text is parsed again.                              *)

NoHashRes == [ok |-> FALSE, hash |-> NoHash, err |-> NoHashErr]

NoOrd == [with |-> NoHash, ord |-> "None", eq |-> FALSE]

\* The hashes a parsed hash is compared with.
HashPeers ==
    {GitCommitHash_from_str(t).hash :
        t \in {Fill(Sha1HexLen, "a"), Fill(Sha1HexLen, "0"), Fill(Sha256HexLen, "0"),
               Fill(Sha256HexLen, "9"), SetAt(Fill(Sha1HexLen, "a"), Sha1HexLen, "c")}}

NoRes == [ok |-> FALSE, stub |-> NoStub, err |-> NoErr]

Init ==
    /\ windows \in BOOLEAN
    /\ mode \in {"hash", "new", "parse"}
    /\ pc = "start"
    /\ hashIn \in IF mode = "hash" THEN HashStrs ELSE {<<>>}
    /\ commitIn \in IF mode = "new" THEN {Sha1Sample, Sha256Sample} ELSE {NoHash}
    /\ pathIn \in IF mode = "new" THEN Paths ELSE {<<>>}
    /\ textIn \in IF mode = "parse" THEN StubTexts ELSE {<<>>}
    /\ otherIn = <<>>
    /\ hashRes = NoHashRes
    /\ hashText = <<>>
    /\ hashRes2 = NoHashRes
    /\ hashOrd = NoOrd
    /\ res = NoRes
    /\ contents = <<>>
    /\ res2 = NoRes
    /\ other = NoRes
    /\ set = {}
    /\ MatIdle

\* s.parse::<GitCommitHash>()
ParseHash ==
    /\ pc = "start" /\ mode = "hash"
    /\ hashRes' = GitCommitHash_from_str(hashIn)
    /\ pc' = "hash_parsed"
    /\ UNCHANGED <<inputs, hashText, hashRes2, hashOrd, stubVars, eqVars, matVars>>

\* hash.to_string()
DisplayHash ==
    /\ pc = "hash_parsed" /\ hashRes.ok
    /\ hashText' = GitCommitHash_Display(hashRes.hash)
    /\ pc' = "hash_shown"
    /\ UNCHANGED <<inputs, hashRes, hashRes2, hashOrd, stubVars, eqVars, matVars>>

\* hash.to_string().parse::<GitCommitHash>()
ReparseHash ==
    /\ pc = "hash_shown"
    /\ hashRes2' = GitCommitHash_from_str(hashText)
    /\ pc' = "hash_done"
    /\ UNCHANGED <<inputs, hashRes, hashText, hashOrd, stubVars, eqVars, matVars>>

\* hash.cmp(&peer) and hash == peer
CompareHash ==
    /\ pc = "hash_parsed" /\ hashRes.ok
    /\ \E peer \in HashPeers :
          hashOrd' = [with |-> peer, ord |-> GitCommitHash_cmp(hashRes.hash, peer),
                      eq |-> hashRes.hash = peer]
    /\ pc' = "hash_compared"
    /\ UNCHANGED <<inputs, hashRes, hashText, hashRes2, stubVars, eqVars, matVars>>

\* GitStub::new(commit, path)
New ==
    /\ pc = "start" /\ mode = "new"
    /\ res' = GitStub_new(commitIn, pathIn)
    /\ pc' = "made"
    /\ UNCHANGED <<inputs, hashVars, contents, res2, eqVars, matVars>>

\* text.parse::<GitStub>()
Parse ==
    /\ pc = "start" /\ mode = "parse"
    /\ res' = GitStub_from_str(textIn)
    /\ pc' = "made"
    /\ UNCHANGED <<inputs, hashVars, contents, res2, eqVars, matVars>>

\* stub.to_file_contents()
ToFileContents ==
    /\ pc = "made" /\ res.ok
    /\ contents' = to_file_contents(res.stub)
    /\ pc' = "written"
    /\ UNCHANGED <<inputs, hashVars, res, res2, eqVars, matVars>>

\* stub.to_file_contents().parse::<GitStub>()
Reparse ==
    /\ pc = "written"
    /\ res2' = GitStub_from_str(contents)
    /\ pc' = "done"
    /\ UNCHANGED <<inputs, hashVars, res, contents, eqVars, matVars>>

Next ==
    \/ ParseHash
    \/ DisplayHash
    \/ ReparseHash
    \/ CompareHash
    \/ New
    \/ Parse
    \/ ToFileContents
    \/ Reparse

Spec == Init /\ [][Next]_vars

----------------------------------------------------------------------------
(* The runs that compare two stubs and collect them in a hash set. *)

EqPaths == {<<"a">>, <<"a", "/", "a">>, <<"a", "\\", "a">>,
            <<"a", "/", ".", "/", "a">>, <<"a", "/", "/", "a">>, <<"a", "/">>}

\* Stub texts that parse, some of them to the same commit and path.
EqTexts ==
    {l \o c \o <<":">> \o p \o t :
        l \in Leads,
        c \in {GitCommitHash_Display(Sha1Sample), GitCommitHash_Display(Sha256Sample),
               ToUpper(GitCommitHash_Display(Sha1Sample))},
        p \in EqPaths, t \in {<<>>, <<"\n">>}}

InitEq ==
    /\ windows \in BOOLEAN
    /\ mode = "eq"
    /\ pc = "start"
    /\ hashIn = <<>>
    /\ commitIn = NoHash
    /\ pathIn = <<>>
    /\ textIn \in EqTexts
    /\ otherIn \in EqTexts
    /\ hashRes = NoHashRes
    /\ hashText = <<>>
    /\ hashRes2 = NoHashRes
    /\ hashOrd = NoOrd
    /\ res = NoRes
    /\ contents = <<>>
    /\ res2 = NoRes
    /\ other = NoRes
    /\ set = {}
    /\ MatIdle

\* let a = text.parse::<GitStub>()
ParseFirst ==
    /\ pc = "start" /\ mode = "eq"
    /\ res' = GitStub_from_str(textIn)
    /\ pc' = "first"
    /\ UNCHANGED <<inputs, hashVars, contents, res2, eqVars, matVars>>

\* let b = other.parse::<GitStub>()
ParseSecond ==
    /\ pc = "first"
    /\ other' = GitStub_from_str(otherIn)
    /\ pc' = "second"
    /\ UNCHANGED <<inputs, hashVars, stubVars, set, matVars>>

\* set.insert(a)
InsertFirst ==
    /\ pc = "second" /\ res.ok /\ other.ok
    /\ set' = HashSetInsert(set, res.stub)
    /\ pc' = "one_in"
    /\ UNCHANGED <<inputs, hashVars, stubVars, other, matVars>>

\* set.insert(b)
InsertSecond ==
    /\ pc = "one_in"
    /\ set' = HashSetInsert(set, other.stub)
    /\ pc' = "both_in"
    /\ UNCHANGED <<inputs, hashVars, stubVars, other, matVars>>

NextEq ==
    \/ ParseFirst
    \/ ParseSecond
    \/ InsertFirst
    \/ InsertSecond

SpecEq == InitEq /\ [][NextEq]_vars

----------------------------------------------------------------------------
(* The runs of a Materializer: one is constructed, its backend may be       *)
(* overridden, and stubs are materialized with it.                          *)

\* Most materialize calls a run makes.
MaxCalls == 1

StubFile(name) == name \o <<".">> \o GitstubExt

\* The text of a stub file for a commit and a path.
StubText(commit, path) == to_file_contents([commit |-> commit, path |-> path,
                                            needs_rewrite |-> FALSE])

\* The files of the world: stubs in the repository (one of them not a stub
\* text, one naming a commit the history lacks), stubs outside it, and the
\* marker of a shallow clone.
WorldFiles(w, shallow) ==
    (IF w.root # "dir" THEN {}
     ELSE {[loc |-> RepoLoc \o <<StubFile(<<"a">>)>>,
            content |-> StubText(Sha1Sample, <<"a">>)],
           [loc |-> RepoLoc \o << <<"d">>, StubFile(<<"a">>) >>,
            content |-> StubText(Sha1Sample, <<"d", "/", "a">>)],
           [loc |-> RepoLoc \o <<StubFile(<<"b">>)>>, content |-> <<"z", "\n">>],
           [loc |-> RepoLoc \o <<StubFile(<<"m">>)>>,
            content |-> StubText(Sha256Sample, <<"a">>)]})
    \cup {[loc |-> << <<"e">>, StubFile(<<"a">>) >>,
           content |-> StubText(Sha1Sample, <<"a">>)],
          [loc |-> << <<"/">>, <<"e">>, StubFile(<<"a">>) >>,
           content |-> StubText(Sha1Sample, <<"a">>)]}
    \cup (IF shallow THEN {[loc |-> ShallowLoc, content |-> <<>>]} ELSE {})

FilesOf(S) ==
    [l \in {f.loc : f \in S} |-> (CHOOSE f \in S : f.loc = l).content]

\* The directories that hold the files.
DirsOf(files) == UNION {Prefixes(Front(l)) : l \in DOMAIN files}

\* The worlds a run starts in. Without a directory at the root there are no
\* markers; at most one of $GIT and $JJ is set.
Worlds ==
    {w \in [root : {"dir", "file", "missing", "ioerr"},
            jj : {"yes", "no", "ioerr"}, git : {"yes", "no", "ioerr"},
            GIT : EnvValues, JJ : EnvValues] :
        /\ w.root # "dir" => w.jj = "no" /\ w.git = "no"
        /\ w.GIT = NotPresent \/ w.JJ = NotPresent}

\* A clone can be shallow where there is a repository.
ShallowChoices(w) == IF w.jj = "yes" \/ w.git = "yes" THEN BOOLEAN ELSE {FALSE}

\* The stub paths handed to materialize: stubs in the repository, a missing
\* one, paths without the extension, and paths that leave the repository.
StubPaths ==
    {StubFile(<<"a">>), <<"d", "/">> \o StubFile(<<"a">>), StubFile(<<"b">>),
     StubFile(<<"m">>), StubFile(<<"x">>),
     <<"a", ".", "j">>, StubFile(<<>>), <<"d", "/", ".", ".">>,
     <<".", ".", "/", "e", "/">> \o StubFile(<<"a">>),
     <<"/", "e", "/">> \o StubFile(<<"a">>),
     <<".", "/">> \o StubFile(<<"a">>),
     <<"d", "/", ".", ".", "/">> \o StubFile(<<"a">>),
     <<".", ".", "/", "e", "/", "a", ".", "j">>}

\* The output paths handed to materialize_to.
OutputPaths == {<<"z">>, <<"d", "/", "z">>}

StandardRoot == <<"r">>

StandardOutputDir == <<"o">>

\* The build script of a crate in the directory c of the repository.
BuildScriptRoot == <<".", ".">>

ManifestDir == EnvText(<<"r", "/", "c">>)

OutDir == EnvText(<<"t">>)

InitMat ==
    /\ windows \in BOOLEAN
    /\ mode = "mat"
    /\ pc = "start"
    /\ hashIn = <<>>
    /\ commitIn = NoHash
    /\ pathIn = <<>>
    /\ textIn = <<>>
    /\ otherIn = <<>>
    /\ hashRes = NoHashRes
    /\ hashText = <<>>
    /\ hashRes2 = NoHashRes
    /\ hashOrd = NoOrd
    /\ res = NoRes
    /\ contents = <<>>
    /\ res2 = NoRes
    /\ other = NoRes
    /\ set = {}
    /\ world \in Worlds
    /\ fs \in {FilesOf(WorldFiles(world, shallow)) : shallow \in ShallowChoices(world)}
    /\ dirs = DirsOf(fs)
    /\ mat = NoMat
    /\ vetted = {}
    /\ ret = NoRet
    /\ effects = <<>>
    /\ calls = 0
    /\ CallsIdle

\* The shallow check at index i of a log of effects ended with the answer
\* "not shallow".
AnsweredNotShallow(l, i) ==
    /\ l[i].op = "spawn"
    /\ l[i].at.args = ShallowArgs(l[i].at.vcs)
    /\ l[i].note = "exit_success"
    /\ IF l[i].at.vcs.name = "Git"
       THEN Trim(l[i].data) = <<"f", "a", "l", "s", "e">>
       ELSE i < Len(l) /\ l[i + 1].op = "try_exists" /\ l[i + 1].note = "no"

\* The backends and roots a log of effects shows a completed shallow check
\* with the answer "not shallow" for.
Vetted(l) ==
    {[vcs |-> l[i].at.vcs, repo_root |-> l[i].at.cwd] :
        i \in {j \in DOMAIN l : AnsweredNotShallow(l, j)}}

\* The caller receives what a constructor or with_vcs built.
Receive(op, arg, built) ==
    /\ mat' = built.mat
    /\ ret' = [op |-> op, arg |-> arg, ok |-> built.ok, err |-> built.err, path |-> <<>>]
    /\ effects' = built.log
    /\ vetted' = vetted \cup Vetted(built.log)
    /\ UNCHANGED <<inputs, pc, hashVars, stubVars, eqVars, world, fs, dirs, calls,
                   callVars>>

\* The outcomes of the shallow check a constructor may see: those of the
\* backend it detects.
ConstructorOutcomes(found, repo_root) ==
    IF found.ok THEN ShallowOutcomes(found.vcs, repo_root) ELSE {SpawnFailure}

\* Materializer::standard(repo_root, output_dir)
Standard ==
    /\ mode = "mat" /\ ret.op = "none"
    /\ \E out \in ConstructorOutcomes(Vcs_detect(StandardRoot), StandardRoot) :
          Receive("standard", [NoArg EXCEPT !.repo_root = StandardRoot],
                  Materializer_standard(StandardRoot, StandardOutputDir, out))

\* Materializer::for_build_script(repo_root)
ForBuildScript ==
    /\ mode = "mat" /\ ret.op = "none"
    /\ \E out_dir \in {NotPresent, OutDir}, manifest_dir \in {NotPresent, ManifestDir} :
          \E out \in ConstructorOutcomes(
                         Vcs_detect(join(manifest_dir.value, BuildScriptRoot)),
                         join(manifest_dir.value, BuildScriptRoot)) :
              Receive("for_build_script", [NoArg EXCEPT !.repo_root = BuildScriptRoot],
                      Materializer_for_build_script(BuildScriptRoot, out_dir,
                                                    manifest_dir, out))

\* materializer.with_vcs(Vcs::git()?) or materializer.with_vcs(Vcs::jj()?)
WithVcs ==
    /\ mode = "mat" /\ mat # NoMat
    /\ \E made \in {Vcs_git, Vcs_jj} :
          /\ made.ok
          /\ \E out \in ShallowOutcomes(made.vcs, mat.repo_root) :
                Receive("with_vcs", [NoArg EXCEPT !.vcs = made.vcs],
                        Materializer_with_vcs(mat, made.vcs, out))

\* The caller receives what materialize or materialize_to returned.
Observe(op, arg, returned) ==
    /\ ret' = [op |-> op, arg |-> arg, ok |-> returned.ok, err |-> returned.err,
               path |-> returned.path]
    /\ effects' = returned.log
    /\ fs' = returned.fs
    /\ dirs' = returned.dirs
    /\ calls' = calls + 1
    /\ UNCHANGED <<inputs, pc, hashVars, stubVars, eqVars, world, mat, vetted,
                   callVars>>

\* materializer.materialize(git_stub_path)
Materialize ==
    /\ mode = "mat" /\ mat # NoMat /\ calls < MaxCalls
    /\ \E p \in StubPaths, o \in MaterializeOutcomes :
          Observe("materialize", [NoArg EXCEPT !.stub_path = p],
                  Materializer_materialize(mat, p, o))

\* materialize_to keeping the output path it wrote to as the Materializer's
\* output directory.
MaterializeTo_Retargeting ==
    /\ mode = "mat" /\ mat # NoMat /\ calls < MaxCalls
    /\ \E p \in StubPaths, q \in OutputPaths, o \in MaterializeOutcomes :
          /\ ret' = [op |-> "materialize_to",
                     arg |-> [NoArg EXCEPT !.stub_path = p, !.output_path = q],
                     ok |-> Materializer_materialize_to(mat, p, q, o).ok,
                     err |-> Materializer_materialize_to(mat, p, q, o).err,
                     path |-> Materializer_materialize_to(mat, p, q, o).path]
          /\ effects' = Materializer_materialize_to(mat, p, q, o).log
          /\ fs' = Materializer_materialize_to(mat, p, q, o).fs
          /\ dirs' = Materializer_materialize_to(mat, p, q, o).dirs
          /\ calls' = calls + 1
          /\ mat' = [mat EXCEPT !.output_dir = join(mat.output_dir, q)]
          /\ UNCHANGED <<inputs, pc, hashVars, stubVars, eqVars, world, vetted, callVars>>

\* materializer.materialize_to(git_stub_path, output_path)
MaterializeTo ==
    /\ mode = "mat" /\ mat # NoMat /\ calls < MaxCalls
    /\ \E p \in StubPaths, q \in OutputPaths, o \in MaterializeOutcomes :
          Observe("materialize_to", [NoArg EXCEPT !.stub_path = p, !.output_path = q],
                  Materializer_materialize_to(mat, p, q, o))

NextMat ==
    \/ Standard
    \/ ForBuildScript
    \/ WithVcs
    \/ Materialize
    \/ MaterializeTo

SpecMat == InitMat /\ [][NextMat]_vars

----------------------------------------------------------------------------
(* Materialize calls step by step: each caller holds a Materializer of its  *)
(* own and runs materialize or materialize_to; the steps of the callers     *)
(* interleave, and every state is one a concurrent reader may observe or a  *)
(* crash may leave.                                                         *)

\* Callers that materialize at the same time.
MaxCallers == 2

Callers == 1..MaxCallers

\* The file at a location, if there is one.
FileAt(files, loc) == IF loc \in DOMAIN files THEN SomeText(files[loc]) ELSE NoText

\* The file system without the files under a directory.
Without(files, dir) == [l \in {k \in DOMAIN files : ~Under(k, dir)} |-> files[l]]

\* A caller that holds a Materializer and has not called it. Of a call it
\* keeps the arguments, the output path and the place it names, the path to
\* return, what the steps so far have produced, the file that was at the
\* output path when the call began, and what the call did.
IdleCall(m) ==
    [pc |-> "idle", self |-> m, op |-> "none", git_stub_path |-> <<>>,
     output_path |-> <<>>, out_loc |-> <<>>, path |-> <<>>, text |-> <<>>,
     stub |-> NoStub,
     content |-> <<>>, tmp |-> <<>>, written |-> 0, err |-> NoMatErr, before |-> NoText, log |-> <<>>]

\* The call of caller c moves on and leaves the files and directories given.
Step(c, call, files, made) ==
    /\ run' = [run EXCEPT ![c] = call]
    /\ fs' = files
    /\ dirs' = made
    /\ UNCHANGED <<inputs, pc, hashVars, stubVars, eqVars, world, mat, vetted, ret,
                   effects, calls, prev, vres>>

\* The call ends with an error before AtomicFile::write has made its
\* temporary directory.
Fails(call, kind, inner, l) ==
    [call EXCEPT !.pc = "returned", !.err = MatErr(kind, inner), !.log = @ \o l]

\* AtomicFile::write ends with an error: atomicwrites::Error::User for the
\* closure's error, Error::Internal for every other; the temporary directory
\* is still to be dropped.
WriteFails(call, inner, l) ==
    [call EXCEPT !.pc = "cleanup", !.err = MatErr("WriteOutput", inner), !.log = @ \o l]

\* The println! made whatever the flag of the Materializer is.
Directive_Always(self, git_stub_path) ==
    <<Effect("directive", join(self.repo_root, git_stub_path),
             "cargo::rerun-if-changed", <<>>)>>

\* The println! of materialize_inner when directives are emitted.
Directive(self, git_stub_path) ==
    IF self.emit_cargo_directives
    THEN <<Effect("directive", join(self.repo_root, git_stub_path),
                  "cargo::rerun-if-changed", <<>>)>>
    ELSE <<>>

\* The entry of materialize and materialize_to: the check of the extension,
\* the output path, and the start of materialize_inner up to the directive,
\* whose println! panics when standard output cannot be written.
Enter(c, op, git_stub_path, output_path, path) ==
    IF extension(git_stub_path) # SomeText(GitstubExt)
    THEN Step(c, [run[c] EXCEPT !.pc = "returned", !.op = op,
                                !.git_stub_path = git_stub_path,
                                !.err = MatErr("NotGitStub", "None")],
              fs, dirs)
    ELSE \/ Step(c, [run[c] EXCEPT !.pc = "read", !.op = op,
                                   !.git_stub_path = git_stub_path,
                                   !.output_path = output_path,
                                   !.out_loc = Location(output_path), !.path = path,
                                   !.before = FileAt(fs, Location(output_path)),
                                   !.log = Directive(run[c].self, git_stub_path)],
                 fs, dirs)
         \/ /\ Directive(run[c].self, git_stub_path) # <<>>
            /\ Step(c, [run[c] EXCEPT
                           !.pc = "panicked", !.op = op,
                           !.git_stub_path = git_stub_path,
                           !.output_path = output_path,
                           !.out_loc = Location(output_path), !.path = path,
                           !.before = FileAt(fs, Location(output_path)),
                           !.log = <<Effect("directive",
                                            join(run[c].self.repo_root, git_stub_path),
                                            "panic", <<>>)>>],
                    fs, dirs)

\* materialize_inner at fs::read_to_string: the text of the stub file, or
\* ReadGitStub.
ReadStubAt(call, full_loc) ==
    IF full_loc \notin DOMAIN fs
    THEN Fails(call, "ReadGitStub", "Io", <<Effect("read", full_loc, "failed", <<>>)>>)
    ELSE [call EXCEPT !.pc = "parse", !.text = fs[full_loc],
                      !.log = @ \o <<Effect("read", full_loc, "ok", fs[full_loc])>>]

\* materialize_inner at the parse: the stub, or InvalidGitStub.
ParsedAs(call, parsed) ==
    IF ~parsed.ok THEN Fails(call, "InvalidGitStub", parsed.err.kind, <<>>)
    ELSE [call EXCEPT !.pc = "fetch", !.stub = parsed.stub]

\* A failed fetch that lets the call go on to the directories.
FetchedAs_GoingOn(call, fetched) ==
    IF ~fetched.ok
    THEN [call EXCEPT !.pc = "mkdir", !.err = MatErr("ReadContents", fetched.err),
                      !.log = @ \o fetched.log]
    ELSE [call EXCEPT !.pc = "mkdir", !.content = fetched.content,
                      !.log = @ \o fetched.log]

\* materialize_inner at read_git_stub_contents: the content, or ReadContents.
FetchedAs(call, fetched) ==
    IF ~fetched.ok THEN Fails(call, "ReadContents", fetched.err, fetched.log)
    ELSE [call EXCEPT !.pc = "mkdir", !.content = fetched.content,
                      !.log = @ \o fetched.log]

\* materialize_inner at fs::create_dir_all(parent): nothing to make for a
\* path without a parent or with the empty one; a failure, also when a file
\* is in the way, is CreateDir.
DirsMadeAs(call, par, failed) ==
    IF ~par.some \/ par.loc = <<>> THEN [call EXCEPT !.pc = "tmpdir"]
    ELSE IF failed \/ Prefixes(par.loc) \cap DOMAIN fs # {}
    THEN Fails(call, "CreateDir", "Io", <<Effect("mkdir", par.loc, "failed", <<>>)>>)
    ELSE [call EXCEPT !.pc = "tmpdir",
                      !.log = @ \o <<Effect("mkdir", par.loc, "ok", <<>>)>>]

DirsAfter(call, par) ==
    IF call.pc = "tmpdir" /\ par.some THEN dirs \cup Prefixes(par.loc) ELSE dirs

\* The names tempfile may give the temporary directory of AtomicFile::write:
\* ".atomicwrite" and a random suffix.
TempNames == {<<".", "a", "t", "o", "m", "i", "c", "w", "r", "i", "t", "e", n>> :
                 n \in {"1", "2"}}

\* AtomicFile::new_with_tmpdir with the current directory as the directory
\* for temporary files.
TempBase_CurrentDir(output_path) == <<>>

\* AtomicFile::new: the directory the temporary directory is made in, the
\* parent of the output path or "." when it has none.
TempBase(output_path) ==
    IF parent(output_path).some THEN parent(output_path).loc ELSE <<>>

\* A temporary directory with one fixed name, whether or not it is there.
TempDirs_FixedName(base) == {base \o <<CHOOSE n \in TempNames : n[Len(n)] = "1">>}

\* tempdir_in: a directory with a name nothing there has yet.
TempDirs(base) ==
    {base \o <<n>> : n \in {m \in TempNames : /\ base \o <<m>> \notin dirs
                                              /\ base \o <<m>> \notin DOMAIN fs}}

TmpFileName == <<"t", "m", "p", "f", "i", "l", "e", ".", "t", "m", "p">>

\* The closure of AtomicFile::write writing to the output path itself.
WriteTarget_InPlace(call) == call.out_loc

\* The file the closure of AtomicFile::write writes to: tmpfile.tmp in the
\* temporary directory.
WriteTarget(call) == call.tmp \o <<TmpFileName>>

\* The stub paths and output paths the callers hand in: the first caller any
\* of them, every other caller the two that write the file the first caller's
\* stub "a.gitstub" is written to.
StepStubPaths(c) ==
    IF c = 1
    THEN {StubFile(<<"a">>), StubFile(<<"b">>), StubFile(<<"m">>), StubFile(<<"x">>),
          <<"a", ".", "j">>}
    ELSE {StubFile(<<"a">>)}

StepOutputPaths == {<<"a">>}

\* materializer.materialize(git_stub_path)
CallMaterialize(c) ==
    /\ mode = "step" /\ run[c].pc = "idle"
    /\ \E p \in StepStubPaths(c) :
          Enter(c, "materialize", p,
                join(run[c].self.output_dir, with_extension_empty(p)),
                join(run[c].self.output_dir, with_extension_empty(p)))

\* materializer.materialize_to(git_stub_path, output_path)
CallMaterializeTo(c) ==
    /\ mode = "step" /\ run[c].pc = "idle"
    /\ \E q \in StepOutputPaths :
          Enter(c, "materialize_to", <<"d", "/">> \o StubFile(<<"a">>),
                join(run[c].self.output_dir, q), <<>>)

\* fs::read_to_string(&full_git_stub_path)
ReadStubFile(c) ==
    /\ mode = "step" /\ run[c].pc = "read"
    /\ Step(c, ReadStubAt(run[c], Location(join(run[c].self.repo_root,
                                                 run[c].git_stub_path))),
            fs, dirs)

\* git_stub_contents.parse()
ParseStub(c) ==
    /\ mode = "step" /\ run[c].pc = "parse"
    /\ Step(c, ParsedAs(run[c], GitStub_from_str(run[c].text)), fs, dirs)

\* The fetch with the shallow check made again before it.
FetchContent_CheckingShallow(c) ==
    /\ mode = "step" /\ run[c].pc = "fetch"
    /\ \E how \in {"spawn_failed", "exit_failure", "none"},
          out \in ShallowOutcomes(run[c].self.vcs, run[c].self.repo_root) :
          Step(c, FetchedAs([run[c] EXCEPT !.log = @ \o is_shallow_clone(
                                 run[c].self.vcs, run[c].self.repo_root, out).log],
                      read_git_stub_contents(run[c].self.vcs, run[c].stub,
                          run[c].self.repo_root,
                          FetchProcess(how, run[c].self.vcs, run[c].stub,
                                       run[c].self.repo_root))),
               fs, dirs)

\* self.vcs.read_git_stub_contents(&git_stub, &self.repo_root)
FetchContent(c) ==
    /\ mode = "step" /\ run[c].pc = "fetch"
    /\ \E how \in {"spawn_failed", "exit_failure", "none"} :
          Step(c, FetchedAs(run[c],
                      read_git_stub_contents(run[c].self.vcs, run[c].stub,
                          run[c].self.repo_root,
                          FetchProcess(how, run[c].self.vcs, run[c].stub,
                                       run[c].self.repo_root))),
               fs, dirs)

\* fs::create_dir_all(parent)
CreateDirAll(c) ==
    /\ mode = "step" /\ run[c].pc = "mkdir"
    /\ \E failed \in BOOLEAN :
          Step(c, DirsMadeAs(run[c], parent(run[c].output_path), failed), fs,
               DirsAfter(DirsMadeAs(run[c], parent(run[c].output_path), failed),
                         parent(run[c].output_path)))

\* AtomicFile::write: tempfile::Builder::new().prefix(".atomicwrite")
\* .tempdir_in(&self.tmpdir), which fails when the directory is not there
\* or cannot be written to.
MakeTempDir(c) ==
    /\ mode = "step" /\ run[c].pc = "tmpdir"
    /\ \/ /\ TempBase(run[c].output_path) \in dirs \cup {<<>>}
          /\ \E tmp \in TempDirs(TempBase(run[c].output_path)) :
                Step(c, [run[c] EXCEPT !.pc = "open", !.tmp = tmp,
                             !.log = @ \o <<Effect("tmpdir", tmp, "ok", <<>>)>>],
                     fs, dirs \cup {tmp})
       \/ Step(c, Fails(run[c], "WriteOutput", "Rename",
                        <<Effect("tmpdir", TempBase(run[c].output_path), "failed", <<>>)>>),
               fs, dirs)

\* AtomicFile::write: OpenOptions::new().write(true).create_new(true).open(&tmppath)
OpenTmpFile(c) ==
    /\ mode = "step" /\ run[c].pc = "open"
    /\ \/ /\ WriteTarget(run[c]) \notin DOMAIN fs
          /\ Step(c, [run[c] EXCEPT !.pc = IF run[c].content = <<>> THEN "sync" ELSE "write",
                          !.log = @ \o <<Effect("create", WriteTarget(run[c]), "ok", <<>>)>>],
                  Put(fs, WriteTarget(run[c]), <<>>), dirs)
       \/ Step(c, WriteFails(run[c], "Rename",
                             <<Effect("create", WriteTarget(run[c]), "failed", <<>>)>>),
               fs, dirs)

\* One write of f.write_all(&content): the next byte reaches the file, or
\* the write fails.
WriteChunk(c) ==
    /\ mode = "step" /\ run[c].pc = "write"
    /\ WriteTarget(run[c]) \in DOMAIN fs
    /\ \/ Step(c, [run[c] EXCEPT
                      !.pc = IF run[c].written + 1 >= Len(run[c].content)
                             THEN "sync" ELSE "write",
                      !.written = @ + 1,
                      !.log = @ \o <<Effect("write", WriteTarget(run[c]), "ok",
                                            <<run[c].content[run[c].written + 1]>>)>>],
                  Put(fs, WriteTarget(run[c]),
                      fs[WriteTarget(run[c])] \o <<run[c].content[run[c].written + 1]>>),
                  dirs)
       \/ Step(c, WriteFails(run[c], "Write",
                             <<Effect("write", WriteTarget(run[c]), "failed", <<>>)>>),
               fs, dirs)

\* AtomicFile::write: tmpfile.sync_all()
SyncTmpFile(c) ==
    /\ mode = "step" /\ run[c].pc = "sync"
    /\ \/ Step(c, [run[c] EXCEPT !.pc = "rename",
                       !.log = @ \o <<Effect("sync", WriteTarget(run[c]), "ok", <<>>)>>],
               fs, dirs)
       \/ Step(c, WriteFails(run[c], "Rename",
                             <<Effect("sync", WriteTarget(run[c]), "failed", <<>>)>>),
               fs, dirs)

\* The file system after rename(from, to): the file is at its new place and
\* replaces what was there.
Renamed(files, from, to) ==
    [l \in (DOMAIN files \ {from}) \cup {to} |-> IF l = to THEN files[from] ELSE files[l]]

\* AtomicFile::write with AllowOverwrite: the rename of replace_atomic, which
\* fails when a directory is at the output path. What follows it is the
\* fsync of the directories on a Unix target.
RenameTmpFile(c) ==
    /\ mode = "step" /\ run[c].pc = "rename"
    /\ \/ /\ WriteTarget(run[c]) \in DOMAIN fs
          /\ run[c].out_loc \notin dirs
          /\ Step(c, [run[c] EXCEPT !.pc = IF windows THEN "cleanup" ELSE "dirsync",
                          !.log = @ \o <<Effect("rename", run[c].out_loc,
                                                "ok", fs[WriteTarget(run[c])])>>],
                  Renamed(fs, WriteTarget(run[c]), run[c].out_loc), dirs)
       \/ Step(c, WriteFails(run[c], "Rename",
                             <<Effect("rename", run[c].out_loc, "failed", <<>>)>>),
               fs, dirs)

\* replace_atomic on a Unix target, after the rename: sync_all of the
\* directories of both paths.
SyncDirs(c) ==
    /\ mode = "step" /\ run[c].pc = "dirsync"
    /\ \/ Step(c, [run[c] EXCEPT !.pc = "cleanup",
                       !.log = @ \o <<Effect("dirsync", TempBase(run[c].output_path),
                                             "ok", <<>>)>>],
               fs, dirs)
       \/ Step(c, WriteFails(run[c], "Rename",
                             <<Effect("dirsync", TempBase(run[c].output_path),
                                      "failed", <<>>)>>),
               fs, dirs)

\* The end of AtomicFile::write with the temporary directory removed only
\* when the write went through.
DropTempDir_OnSuccessOnly(c) ==
    /\ mode = "step" /\ run[c].pc = "cleanup"
    /\ IF run[c].err = NoMatErr
       THEN Step(c, [run[c] EXCEPT !.pc = "returned"], Without(fs, run[c].tmp),
                 dirs \ {run[c].tmp})
       ELSE Step(c, [run[c] EXCEPT !.pc = "returned"], fs, dirs)

\* The end of AtomicFile::write: the TempDir is dropped, which removes the
\* temporary directory and what is left in it; then the call returns.
DropTempDir(c) ==
    /\ mode = "step" /\ run[c].pc = "cleanup"
    /\ Step(c, [run[c] EXCEPT !.pc = "returned"], Without(fs, run[c].tmp),
            dirs \ {run[c].tmp})

\* After the Materializers were constructed the clone becomes shallow.
BecomeShallow ==
    /\ mode = "step"
    /\ \A c \in Callers : run[c].pc = "idle"
    /\ ShallowLoc \notin DOMAIN fs
    /\ fs' = Put(fs, ShallowLoc, <<>>)
    /\ dirs' = dirs \cup Prefixes(Front(ShallowLoc))
    /\ UNCHANGED <<inputs, pc, hashVars, stubVars, eqVars, world, mat, vetted, ret,
                   effects, calls, callVars>>

\* The worlds the callers work in: a Git repository, or a jj repository
\* colocated with one; the tools are the default ones.
StepWorlds ==
    {w \in Worlds : /\ w.root = "dir" /\ w.git = "yes" /\ w.jj \in {"yes", "no"}
                    /\ w.GIT = NotPresent /\ w.JJ = NotPresent}

\* The output file the callers write may be there already.
OldFiles == {NoFiles, [l \in {<<StandardOutputDir, <<"a">> >>} |-> <<"o", "l", "d">>]}

\* What the constructors return in the world as it is.
Constructions ==
    {Materializer_standard(StandardRoot, StandardOutputDir, out) :
        out \in ShallowOutcomes(Vcs_detect(StandardRoot).vcs, StandardRoot)}
    \cup {Materializer_for_build_script(BuildScriptRoot, OutDir, ManifestDir, out) :
             out \in ShallowOutcomes(Vcs_detect(StandardRoot).vcs,
                                     join(ManifestDir.value, BuildScriptRoot))}

\* The Materializers the callers can hold.
ReadyMaterializers == {b.mat : b \in {x \in Constructions : x.ok}}


InitStep ==
    /\ windows \in BOOLEAN
    /\ mode = "step"
    /\ pc = "start"
    /\ hashIn = <<>>
    /\ commitIn = NoHash
    /\ pathIn = <<>>
    /\ textIn = <<>>
    /\ otherIn = <<>>
    /\ hashRes = NoHashRes
    /\ hashText = <<>>
    /\ hashRes2 = NoHashRes
    /\ hashOrd = NoOrd
    /\ res = NoRes
    /\ contents = <<>>
    /\ res2 = NoRes
    /\ other = NoRes
    /\ set = {}
    /\ world \in StepWorlds
    /\ fs \in {FilesOf(WorldFiles(world, FALSE)) @@ old : old \in OldFiles}
    /\ dirs = DirsOf(fs)
    /\ mat = NoMat
    /\ vetted = {}
    /\ ret = NoRet
    /\ effects = <<>>
    /\ calls = 0
    /\ run = [c \in Callers |-> [IdleCall(NoMat) EXCEPT !.pc = "new"]]
    /\ prev = NoPrev
    /\ vres = NoVres

\* Every caller constructs its Materializer, all with the same constructor
\* and arguments.
Construct ==
    /\ mode = "step"
    /\ \A c \in Callers : run[c].pc = "new"
    /\ \E m \in ReadyMaterializers : run' = [c \in Callers |-> IdleCall(m)]
    /\ UNCHANGED <<inputs, pc, hashVars, stubVars, eqVars, world, fs, dirs, mat, vetted,
                   ret, effects, calls, prev, vres>>

Stepping(c) ==
    \/ CallMaterialize(c)
    \/ CallMaterializeTo(c)
    \/ ReadStubFile(c)
    \/ ParseStub(c)
    \/ FetchContent(c)
    \/ CreateDirAll(c)
    \/ MakeTempDir(c)
    \/ OpenTmpFile(c)
    \/ WriteChunk(c)
    \/ SyncTmpFile(c)
    \/ RenameTmpFile(c)
    \/ SyncDirs(c)
    \/ DropTempDir(c)

NextStep ==
    \/ Construct
    \/ \E c \in Callers : Stepping(c)
    \/ BecomeShallow

SpecStep == InitStep /\ [][NextStep]_vars

----------------------------------------------------------------------------
(* The runs that materialize one stub twice: a Materializer is constructed, *)
(* materialize is called, and called again with the same stub path while    *)
(* the stub file and the repository are as they were.                       *)

\* The caller receives what the second materialize call returned; what the
\* first returned and left is kept, with what the environment made fail in
\* the second.
ObserveAgain(op, arg, returned, o) ==
    /\ ret' = [op |-> op, arg |-> arg, ok |-> returned.ok, err |-> returned.err,
               path |-> returned.path]
    /\ effects' = returned.log
    /\ fs' = returned.fs
    /\ dirs' = returned.dirs
    /\ calls' = calls + 1
    /\ prev' = [ret |-> ret, fs |-> fs, injected |-> o]
    /\ UNCHANGED <<inputs, pc, hashVars, stubVars, eqVars, world, mat, vetted, run, vres>>

\* materializer.materialize(git_stub_path), a second time with the same path
MaterializeAgain ==
    /\ mode = "mat" /\ mat # NoMat
    /\ ret.op = "materialize" /\ prev = NoPrev
    /\ \E o \in MaterializeOutcomes :
          ObserveAgain("materialize", ret.arg,
                       Materializer_materialize(mat, ret.arg.stub_path, o), o)

InitAgain ==
    /\ windows \in BOOLEAN
    /\ mode = "mat"
    /\ pc = "start"
    /\ hashIn = <<>>
    /\ commitIn = NoHash
    /\ pathIn = <<>>
    /\ textIn = <<>>
    /\ otherIn = <<>>
    /\ hashRes = NoHashRes
    /\ hashText = <<>>
    /\ hashRes2 = NoHashRes
    /\ hashOrd = NoOrd
    /\ res = NoRes
    /\ contents = <<>>
    /\ res2 = NoRes
    /\ other = NoRes
    /\ set = {}
    /\ world \in StepWorlds
    /\ fs \in {FilesOf(WorldFiles(world, FALSE)) @@ old : old \in OldFiles}
    /\ dirs = DirsOf(fs)
    /\ mat = NoMat
    /\ vetted = {}
    /\ ret = NoRet
    /\ effects = <<>>
    /\ calls = 0
    /\ CallsIdle

NextAgain ==
    \/ Standard
    \/ ForBuildScript
    \/ Materialize
    \/ MaterializeAgain

SpecAgain == InitAgain /\ [][NextAgain]_vars

----------------------------------------------------------------------------
(* The runs of a Vcs alone: one is constructed by name or detected at a     *)
(* root, and contents are read with it.                                     *)

\* Values of $GIT and $JJ: those above and the empty text.
VcsEnvValues == EnvValues \cup {EnvText(<<>>)}

\* The worlds a Vcs is made in: the root and its markers in every state, .git
\* as a directory or as a file, and both variables with any value.
VcsWorlds ==
    {w \in [root : {"dir", "file", "missing", "ioerr"},
            jj : {"yes", "no", "ioerr"}, git : {"yes", "file", "no", "ioerr"},
            GIT : VcsEnvValues, JJ : VcsEnvValues] :
        w.root # "dir" => w.jj = "no" /\ w.git = "no"}

\* The roots handed to detect: the repository and a path nothing is at.
DetectRoots == {StandardRoot, <<"q">>}

\* The stubs contents are read for: two the history has, a commit and a
\* path it lacks.
ReadStubs ==
    {[commit |-> Sha1Sample, path |-> <<"a">>, needs_rewrite |-> FALSE],
     [commit |-> Sha1Sample, path |-> <<"d", "/", "a">>, needs_rewrite |-> FALSE],
     [commit |-> Sha256Sample, path |-> <<"a">>, needs_rewrite |-> FALSE],
     [commit |-> Sha1Sample, path |-> <<"b">>, needs_rewrite |-> FALSE],
     [commit |-> Sha256Sample, path |-> <<"-", "r">>, needs_rewrite |-> FALSE]}

\* A process ended by a signal after it printed something.
Killed ==
    [spawned |-> TRUE, success |-> FALSE, status |-> "signal: 9 (SIGKILL)",
     stdout |-> <<"x">>, stderr |-> <<>>, io |-> FALSE]

\* The outcomes of the content-read process.
ReadProcesses(vcs, stub, repo_root) ==
    {FetchProcess(how, vcs, stub, repo_root) :
        how \in {"spawn_failed", "exit_failure", "none"}} \cup {Killed}

\* The caller receives the Vcs a constructor or detect made, or its error.
Made(op, root, made, log) ==
    /\ vres' = [NoVres EXCEPT !.op = op, !.root = root, !.ok = made.ok,
                              !.vcs = made.vcs, !.err = made.err, !.log = log]
    /\ UNCHANGED <<inputs, pc, hashVars, stubVars, eqVars, world, fs, dirs, mat,
                   vetted, ret, effects, calls, run, prev>>

\* Vcs::git()
Git == mode = "vcs" /\ Made("git", <<>>, Vcs_git, <<>>)

\* Vcs::jj()
Jj == mode = "vcs" /\ Made("jj", <<>>, Vcs_jj, <<>>)

\* Vcs::detect(repo_root)
Detect ==
    /\ mode = "vcs"
    /\ \E root \in DetectRoots :
          Made("detect", root, Vcs_detect(root), Vcs_detect(root).log)

\* The caller receives what read_git_stub_contents returned.
HasRead(vcs, stub, out, read) ==
    /\ vres' = [vres EXCEPT !.op = "read", !.stub = stub, !.out = out,
                            !.content = read.content, !.err = read.err,
                            !.detail = read.detail, !.log = read.log]
    /\ UNCHANGED <<inputs, pc, hashVars, stubVars, eqVars, world, fs, dirs, mat,
                   vetted, ret, effects, calls, run, prev>>

\* What the shallow check's process may do: what it does in the repository,
\* and for Git every answer and an answer with a failed exit.
ShallowProcesses(vcs) ==
    ShallowOutcomes(vcs, StandardRoot)
    \cup (IF vcs.name # "Git" THEN {}
          ELSE {ExitSuccess(t, FALSE) :
                   t \in {<<"t", "r", "u", "e", "\n">>, <<" ", "t", "r", "u", "e">>,
                          <<"f", "a", "l", "s", "e">>, <<"T", "r", "u", "e", "\n">>,
                          <<"f", "a", "l", "s", "e", "\n", "x">>, <<>>, <<"\n">>}}
               \cup {[ExitFailure EXCEPT !.stdout = <<"f", "a", "l", "s", "e", "\n">>],
                     Killed})

\* vcs.is_shallow_clone(repo_root) with the Vcs made before
IsShallowClone ==
    /\ mode = "vcs" /\ vres.ok /\ vres.op \in {"git", "jj", "detect"}
    /\ \E out \in ShallowProcesses(vres.vcs) :
          /\ vres' = [vres EXCEPT
                         !.op = "shallow", !.out = out,
                         !.err = is_shallow_clone(vres.vcs, StandardRoot, out).err,
                         !.value = is_shallow_clone(vres.vcs, StandardRoot, out).value,
                         !.detail = is_shallow_clone(vres.vcs, StandardRoot, out).detail,
                         !.log = is_shallow_clone(vres.vcs, StandardRoot, out).log]
          /\ UNCHANGED <<inputs, pc, hashVars, stubVars, eqVars, world, fs, dirs, mat,
                         vetted, ret, effects, calls, run, prev>>

\* vcs.read_git_stub_contents(&stub, repo_root) with the Vcs made before
ReadContents ==
    /\ mode = "vcs" /\ vres.ok /\ vres.op \in {"git", "jj", "detect"}
    /\ \E stub \in ReadStubs :
          \E out \in ReadProcesses(vres.vcs, stub, StandardRoot) :
              HasRead(vres.vcs, stub, out,
                      read_git_stub_contents(vres.vcs, stub, StandardRoot, out))

InitVcs ==
    /\ windows \in BOOLEAN
    /\ mode = "vcs"
    /\ pc = "start"
    /\ hashIn = <<>>
    /\ commitIn = NoHash
    /\ pathIn = <<>>
    /\ textIn = <<>>
    /\ otherIn = <<>>
    /\ hashRes = NoHashRes
    /\ hashText = <<>>
    /\ hashRes2 = NoHashRes
    /\ hashOrd = NoOrd
    /\ res = NoRes
    /\ contents = <<>>
    /\ res2 = NoRes
    /\ other = NoRes
    /\ set = {}
    /\ world \in VcsWorlds
    /\ fs = NoFiles
    /\ dirs = {}
    /\ mat = NoMat
    /\ vetted = {}
    /\ ret = NoRet
    /\ effects = <<>>
    /\ calls = 0
    /\ CallsIdle

NextVcs ==
    \/ Git
    \/ Jj
    \/ Detect
    \/ IsShallowClone
    \/ ReadContents

SpecVcs == InitVcs /\ [][NextVcs]_vars

----------------------------------------------------------------------------
(* What the claims speak of. *)

\* The pieces of a path as written, between '/' and '\' characters.
Pieces(p) == SplitAny(p, {"/", "\\"})

\* A drive prefix at the start of a path, on a build that has them.
HasDrivePrefix(p) == windows /\ Len(p) >= 2 /\ p[2] = ":" /\ p[1] \in AsciiAlpha

\* The path has a piece "..", a piece ".", starts at the root or with a drive.
HasNonPlainPiece(p) ==
    \/ \E i \in DOMAIN Pieces(p) : Pieces(p)[i] \in {<<".", ".">>, <<".">>}
    \/ (p # <<>> /\ p[1] \in {"/", "\\"})
    \/ HasDrivePrefix(p)

\* The path a run hands to the constructor: the argument of new, or the text
\* after the first colon of the trimmed stub text.
InputPath == IF mode = "new" THEN pathIn ELSE SplitOnce(Trim(textIn), ":").right

\* The commit text of a stub text: what stands before the first colon.
InputCommitStr == SplitOnce(Trim(textIn), ":").left

\* The run reaches path validation: new was called, or the stub text has a
\* colon and a commit that parses.
CommitAccepted ==
    \/ mode = "new"
    \/ /\ mode = "parse"
       /\ SplitOnce(Trim(textIn), ":").found
       /\ GitCommitHash_from_str(InputCommitStr).ok

\* C1: for every valid commit hash and every path GitStub::new accepts,
\* parsing to_file_contents() of the constructed stub succeeds, yields a stub
\* equal to the constructed one, and the reparsed stub has needs_rewrite false.
C1_RoundTrip ==
    (mode = "new" /\ pc = "done")
        => /\ res2.ok
           /\ GitStub_eq(res2.stub, res.stub)
           /\ ~res2.stub.needs_rewrite

\* C2: every input path with a piece "..", a piece ".", a root marker or a
\* drive prefix, at any position, is rejected by GitStub::new and by parsing
\* with InvalidPathComponent naming the offending component. (Paths holding
\* a newline, which are reported as NewlineInPath first, are left aside.)
C2_TraversalRejected ==
    (pc = "made" /\ CommitAccepted /\ HasNonPlainPiece(InputPath)
                 /\ ~Contains(InputPath, "\n"))
        => /\ ~res.ok
           /\ res.err.kind = "InvalidPathComponent"
           /\ \/ res.err.component \in {<<".", ".">>, <<".">>, <<"/">>}
              \/ windows /\ PathPrefixLen(res.err.path) > 0

\* The path of a stub, as text: non-empty, without backslash or newline, and
\* every '/'-separated piece a plain name.
PlainStubPath(p) ==
    /\ p # <<>>
    /\ ~Contains(p, "\\")
    /\ ~Contains(p, "\n")
    /\ ~HasNonPlainPiece(p)

\* C3: every GitStub a constructor returns has a non-empty path without
\* backslash or newline whose every '/'-separated component is a plain name
\* (not "..", ".", a root marker or a drive prefix); and a text whose trimmed
\* form spans more than one line is rejected.
C3_StubInvariant ==
    /\ res.ok => PlainStubPath(res.stub.path)
    /\ res2.ok => PlainStubPath(res2.stub.path)
    /\ (mode = "parse" /\ pc = "made" /\ Contains(Trim(textIn), "\n")) => ~res.ok

\* C4: two stubs are equal exactly when their commits and their paths are
\* equal, whatever their needs_rewrite flags; equal stubs have the same hash,
\* and inserting two equal stubs into a hash set leaves one element.
C4_EqIgnoresRewrite ==
    (pc \in {"second", "one_in", "both_in"} /\ res.ok /\ other.ok)
        => /\ GitStub_eq(res.stub, other.stub)
                <=> (res.stub.commit = other.stub.commit
                     /\ PathEq(res.stub.path, other.stub.path))
           /\ GitStub_eq(res.stub, other.stub)
                => GitStub_hash(res.stub) = GitStub_hash(other.stub)
           /\ (pc = "both_in" /\ GitStub_eq(res.stub, other.stub))
                => Cardinality(set) = 1
           /\ (pc = "both_in" /\ ~GitStub_eq(res.stub, other.stub))
                => Cardinality(set) = 2

\* Two texts that differ, parsed to equal stubs with different flags, both
\* inserted.
C4_Witness ==
    /\ pc = "both_in"
    /\ textIn # otherIn
    /\ GitStub_eq(res.stub, other.stub)
    /\ res.stub.needs_rewrite /\ ~other.stub.needs_rewrite
    /\ Cardinality(set) = 1

\* The text has a blank, tab, carriage return or newline first, or one
\* before its final newline.
HasStrayWhitespace(s) ==
    \/ (s # <<>> /\ s[1] \in WhiteSpace)
    \/ (Len(s) >= 2 /\ s[Len(s) - 1] \in WhiteSpace)

\* C5: for every text that parses, needs_rewrite is true if the text lacks
\* the trailing newline, has more than one trailing newline or a CRLF, has
\* leading or other trailing whitespace, a backslash in the path, or an
\* uppercase hex digit in the commit; and it is false when the text is
\* exactly lowercase-hex, colon, forward-slash path and one newline.
C5_Canonicality ==
    (mode = "parse" /\ pc = "made" /\ res.ok)
        => /\ ~EndsWith(textIn, "\n") => res.stub.needs_rewrite
           /\ HasStrayWhitespace(textIn) => res.stub.needs_rewrite
           /\ Contains(InputPath, "\\") => res.stub.needs_rewrite
           /\ (\E i \in DOMAIN InputCommitStr : InputCommitStr[i] \in AsciiUpper)
                => res.stub.needs_rewrite
           /\ (/\ EndsWith(textIn, "\n")
               /\ ~HasStrayWhitespace(textIn)
               /\ ~Contains(textIn, "\\")
               /\ \A i \in DOMAIN InputCommitStr : InputCommitStr[i] \notin AsciiUpper)
                => ~res.stub.needs_rewrite

\* A text that is canonical but for its uppercase commit, parsed and flagged.
C5_Witness ==
    /\ mode = "parse" /\ pc = "made" /\ res.ok
    /\ res.stub.needs_rewrite
    /\ EndsWith(textIn, "\n") /\ ~HasStrayWhitespace(textIn)
    /\ ~Contains(textIn, "\\")
    /\ \E i \in DOMAIN InputCommitStr : InputCommitStr[i] \in AsciiUpper

HexChars == {"0", "1", "2", "3", "4", "5", "6", "7", "8", "9",
             "a", "b", "c", "d", "e", "f", "A", "B", "C", "D", "E", "F"}

AcceptedLens == {Sha1HexLen, Sha256HexLen}

HasSurroundingWhitespace(s) ==
    s # <<>> /\ (s[1] \in WhiteSpace \/ s[Len(s)] \in WhiteSpace)

\* C6 as stated: parsing succeeds only for 40 or 64 hex digits; every other
\* length, and any input with surrounding whitespace, fails with
\* InvalidLength(actual length); InvalidHex is only returned for inputs of
\* length 40 or 64.
C6_LengthRuleAsStated ==
    (mode = "hash" /\ pc = "hash_parsed")
        => /\ hashRes.ok => /\ Len(hashIn) \in AcceptedLens
                            /\ \A i \in DOMAIN hashIn : hashIn[i] \in HexChars
           /\ (Len(hashIn) \notin AcceptedLens \/ HasSurroundingWhitespace(hashIn))
                => /\ ~hashRes.ok
                   /\ hashRes.err = [kind |-> "InvalidLength", len |-> Len(hashIn)]
           /\ hashRes.err.kind = "InvalidHex" => Len(hashIn) \in AcceptedLens

\* C6, amended: parsing succeeds only for 40 or 64 hex digits; every other
\* length, with or without surrounding whitespace, fails with
\* InvalidLength(actual length); an input of length 40 or 64 that is not all
\* hex digits (one with surrounding whitespace included) fails with
\* InvalidHex, which is returned for no other length.
C6_LengthRule ==
    (mode = "hash" /\ pc = "hash_parsed")
        => /\ hashRes.ok => /\ Len(hashIn) \in AcceptedLens
                            /\ \A i \in DOMAIN hashIn : hashIn[i] \in HexChars
           /\ Len(hashIn) \notin AcceptedLens
                => /\ ~hashRes.ok
                   /\ hashRes.err = [kind |-> "InvalidLength", len |-> Len(hashIn)]
           /\ (Len(hashIn) \in AcceptedLens /\ \E i \in DOMAIN hashIn : hashIn[i] \notin HexChars)
                => ~hashRes.ok /\ hashRes.err.kind = "InvalidHex"
           /\ hashRes.err.kind = "InvalidHex" => Len(hashIn) \in AcceptedLens

\* A text of 41 characters, a blank and 40 hex digits, refused for its length.
C6_Witness ==
    /\ mode = "hash" /\ pc = "hash_parsed"
    /\ Len(hashIn) = Sha1HexLen + 1
    /\ hashIn[1] = " "
    /\ \A i \in 2..Len(hashIn) : hashIn[i] \in HexChars
    /\ hashRes.err = [kind |-> "InvalidLength", len |-> Sha1HexLen + 1]

----------------------------------------------------------------------------
(* What the claims about the Materializer speak of. *)

\* The repository is a shallow clone: its Git store has the marker file.
IsShallow == ShallowLoc \in DOMAIN fs

\* A log of effects shows a shallow check whose process ran and whose answer
\* was understood, whatever the answer.
ShallowCheckAnswered(l) ==
    \E i \in DOMAIN l :
        /\ l[i].op = "spawn"
        /\ l[i].at.args = ShallowArgs(l[i].at.vcs)
        /\ l[i].note = "exit_success"
        /\ IF l[i].at.vcs.name = "Git"
           THEN Trim(l[i].data) \in {<<"t", "r", "u", "e">>, <<"f", "a", "l", "s", "e">>}
           ELSE i < Len(l) /\ l[i + 1].op = "try_exists"
                           /\ l[i + 1].note \in {"yes", "no"}

\* The last operation was one of the two constructors.
Constructed == ret.op \in {"standard", "for_build_script"}

\* The last operation was a materialize or materialize_to call.
Materialized == ret.op \in {"materialize", "materialize_to"}

\* The path text ends in a file name with the suffix ".gitstub".
HasGitstubSuffix(p) ==
    LET name == Last(Pieces(p))
    IN  /\ Len(name) > Len(GitstubExt) + 1
        /\ SubSeq(name, Len(name) - Len(GitstubExt), Len(name)) = <<".">> \o GitstubExt

\* C7: a constructor returns a Materializer only after the shallow check of
\* the detected backend at repo_root has answered "not shallow"; against a
\* shallow clone construction fails, with ShallowClone whenever the check
\* runs to an answer; so the Materializer a caller holds always has a backend
\* that was checked at its repo_root.
C7_ShallowRejectedAtConstruction ==
    /\ mat # NoMat => [vcs |-> mat.vcs, repo_root |-> mat.repo_root] \in vetted
    /\ Constructed =>
          /\ ret.ok <=> mat # NoMat
          /\ ret.ok => [vcs |-> mat.vcs, repo_root |-> mat.repo_root] \in Vetted(effects)
          /\ IsShallow =>
                /\ ~ret.ok
                /\ ShallowCheckAnswered(effects) => ret.err.kind = "ShallowClone"

\* for_build_script in a shallow jj-backed clone: the marker file was probed
\* and the constructor returned ShallowClone.
C7_Witness ==
    /\ ret.op = "for_build_script"
    /\ IsShallow
    /\ world.jj = "yes"
    /\ ShallowCheckAnswered(effects)
    /\ ret.err.kind = "ShallowClone"
    /\ mat = NoMat

\* C8: with_vcs(b) launches the shallow check of b at the Materializer's
\* repo_root; it succeeds exactly when that check answers "not shallow", and
\* then returns the Materializer with b as its backend and every other field
\* unchanged; otherwise no Materializer is returned and the error is
\* ShallowClone when the check answered and ShallowCloneCheck when it failed.
C8_OverrideRevalidates ==
    [][ret'.op = "with_vcs" =>
          /\ effects' # <<>>
          /\ effects'[1].op = "spawn"
          /\ effects'[1].at = [vcs |-> ret'.arg.vcs, cwd |-> mat.repo_root,
                               args |-> ShallowArgs(ret'.arg.vcs)]
          /\ ret'.ok <=> [vcs |-> ret'.arg.vcs, repo_root |-> mat.repo_root]
                            \in Vetted(effects')
          /\ IF ret'.ok THEN mat' = [mat EXCEPT !.vcs = ret'.arg.vcs]
             ELSE /\ mat' = NoMat
                  /\ ret'.err.kind = IF ShallowCheckAnswered(effects')
                                     THEN "ShallowClone" ELSE "ShallowCloneCheck"]_vars

\* In a repository with both markers, where detection chose jj, the backend
\* was overridden with Git and the Materializer now carries it.
C8_Witness ==
    /\ ret.op = "with_vcs"
    /\ ret.ok
    /\ world.jj = "yes"
    /\ ret.arg.vcs.name = "Git"
    /\ mat.vcs = ret.arg.vcs
    /\ [vcs |-> mat.vcs, repo_root |-> mat.repo_root] \in vetted

\* C9: a stub path with the stub extension that has a "..", a "." or a root
\* in any component is rejected with InvalidPathComponent before anything is
\* read, launched or written; no file outside repo_root is read and
\* materialize writes no file outside output_dir.
C9_StubPathShapeValidated ==
    Materialized =>
        /\ (HasGitstubSuffix(ret.arg.stub_path) /\ HasNonPlainPiece(ret.arg.stub_path))
              => ret.err.kind = "InvalidPathComponent" /\ effects = <<>>
        /\ \A i \in DOMAIN effects :
              /\ effects[i].op = "read"
                    => Under(effects[i].at, Location(mat.repo_root))
              /\ (effects[i].op = "write" /\ ret.op = "materialize")
                    => Under(effects[i].at, Location(mat.output_dir))

\* C10: a materialize or materialize_to call with a stub path that lacks the
\* stub extension returns NotGitStub and does nothing else: no file system
\* call, no directive, no process, and the files and directories are as
\* before.
C10_NotGitStubBeforeAnyAccess ==
    [][(ret'.op \in {"materialize", "materialize_to"} /\ calls' = calls + 1
            /\ ~HasGitstubSuffix(ret'.arg.stub_path))
          => /\ ~ret'.ok
             /\ ret'.err = MatErr("NotGitStub", "None")
             /\ effects' = <<>>
             /\ fs' = fs
             /\ dirs' = dirs
             /\ mat' = mat]_vars

\* materialize_to was handed a path with another extension, in a mode that
\* emits directives, and returned NotGitStub without an effect.
C10_Witness ==
    /\ ret.op = "materialize_to"
    /\ ~HasGitstubSuffix(ret.arg.stub_path)
    /\ Last(Pieces(ret.arg.stub_path)) = <<"a", ".", "j">>
    /\ mat.emit_cargo_directives
    /\ ret.err.kind = "NotGitStub"
    /\ effects = <<>>

----------------------------------------------------------------------------
(* What the claims about the steps of a materialize call speak of. *)

\* Where the call of caller c writes its output.
OutLoc(c) == run[c].out_loc

\* The call of caller c has returned, and no other caller has made a call.
ReturnedAlone(c) ==
    /\ run[c].pc = "returned"
    /\ \A d \in Callers \ {c} : run[d].pc = "idle"

\* The process launches in the log of a call.
Launches(l) == {i \in DOMAIN l : l[i].op = "spawn"}

\* The call of caller c was handed the content by the content-read process.
HasFetched(c) ==
    \E i \in Launches(run[c].log) : run[c].log[i].note = "exit_success"

\* The bytes the content-read process printed for the call of caller c.
FetchedBytes(c) ==
    run[c].log[CHOOSE i \in Launches(run[c].log) :
                   run[c].log[i].note = "exit_success"].data

\* The call of caller c failed in the sync of the directories that follows
\* the rename.
FailedAfterRename(c) ==
    /\ run[c].err = MatErr("WriteOutput", "Rename")
    /\ \E i \in DOMAIN run[c].log :
          /\ run[c].log[i].op = "dirsync"
          /\ run[c].log[i].note = "failed"

\* C11 as stated: when a call returns an error the file at the output path
\* is as it was before the call, and when it returns success the file holds
\* exactly the fetched bytes.
C11_NoPartialSuccessAsStated ==
    \A c \in Callers :
        ReturnedAlone(c) =>
            IF run[c].err.kind = "None"
            THEN HasFetched(c) /\ FileAt(fs, OutLoc(c)) = SomeText(FetchedBytes(c))
            ELSE FileAt(fs, OutLoc(c)) = run[c].before

\* C11, amended: when a call returns success the file at the output path
\* holds exactly the fetched bytes; when it returns an error the file is as
\* it was before the call, unless the error is WriteOutput{Rename} from the
\* sync of the directories after the rename (Unix targets), and then the
\* file holds exactly the fetched bytes; the file is never partly updated.
C11_NoPartialSuccess ==
    \A c \in Callers :
        ReturnedAlone(c) =>
            IF run[c].err.kind = "None"
            THEN HasFetched(c) /\ FileAt(fs, OutLoc(c)) = SomeText(FetchedBytes(c))
            ELSE IF FailedAfterRename(c)
            THEN ~windows /\ FileAt(fs, OutLoc(c)) = SomeText(FetchedBytes(c))
            ELSE FileAt(fs, OutLoc(c)) = run[c].before

\* A call failed while writing, after a byte had reached the temporary file,
\* and the output file that was there before is as it was.
C11_Witness ==
    \E c \in Callers :
        /\ ReturnedAlone(c)
        /\ run[c].err = MatErr("WriteOutput", "Write")
        /\ run[c].written >= 1
        /\ run[c].before = SomeText(<<"o", "l", "d">>)
        /\ FileAt(fs, OutLoc(c)) = run[c].before

\* Where a call writes its output.
OutLocOf(call) == call.out_loc

\* The calls among r that have entered materialize_inner and write to loc.
WritersOf(r, loc) ==
    {d \in Callers : r[d].output_path # <<>> /\ OutLocOf(r[d]) = loc}

\* The bytes the content-read process printed, in the log of a call.
FetchedIn(l) == l[CHOOSE i \in Launches(l) : l[i].note = "exit_success"].data

\* What the file at loc may hold at any moment: nothing, what a writer found
\* there when its call began, or all the bytes a writer has fetched.
CompleteAt(r, loc) ==
    {NoText}
    \cup {r[d].before : d \in WritersOf(r, loc)}
    \cup {SomeText(FetchedIn(r[d].log)) :
             d \in {e \in WritersOf(r, loc) :
                       \E i \in Launches(r[e].log) : r[e].log[i].note = "exit_success"}}

\* The step from call to next is the rename of a complete temporary file.
IsRenameStep(call, next, files) ==
    /\ call.pc = "rename"
    /\ next.pc \in {"dirsync", "cleanup"}
    /\ next.err.kind = "None"
    /\ call.tmp # <<>>
    /\ FileAt(files, call.tmp \o <<TmpFileName>>) = SomeText(FetchedIn(call.log))

\* The files a call has created or written bytes to are temporary ones in
\* the directory of its output path.
WritesBesideOutput(call) ==
    \A i \in DOMAIN call.log :
        call.log[i].op \in {"create", "write"}
            => /\ call.log[i].at # OutLocOf(call)
               /\ Under(call.log[i].at, Front(OutLocOf(call)))
               /\ Under(call.log[i].at, call.tmp)

\* C12: after every step of every caller, the file at an output path is
\* absent, or holds the complete content it had when a call began, or the
\* complete new content; bytes are only written to a temporary file in the
\* directory of the output path, and the output file changes only by one
\* rename of the completely written temporary file, which replaces a file
\* that is there.
C12_AtomicWriteVisibility ==
    [][\A c \in Callers :
          run'[c].output_path # <<>> =>
             /\ FileAt(fs', OutLocOf(run'[c])) \in CompleteAt(run', OutLocOf(run'[c]))
             /\ WritesBesideOutput(run'[c])
             /\ FileAt(fs', OutLocOf(run'[c])) # FileAt(fs, OutLocOf(run'[c]))
                   => \E d \in WritersOf(run, OutLocOf(run'[c])) :
                         /\ IsRenameStep(run[d], run'[d], fs)
                         /\ FileAt(fs', OutLocOf(run'[c])) = SomeText(FetchedIn(run[d].log))]_vars

\* A call has written the first of two bytes to its temporary file while
\* the output path still holds the whole old file.
C12_Witness ==
    \E c \in Callers :
        /\ run[c].pc = "write"
        /\ run[c].written = 1
        /\ Len(run[c].content) = 2
        /\ FileAt(fs, WriteTarget(run[c])) = SomeText(<<run[c].content[1]>>)
        /\ FileAt(fs, OutLoc(c)) = SomeText(<<"o", "l", "d">>)

\* The call of caller c holds a temporary directory: AtomicFile::write has
\* made it and has not dropped it yet.
HoldsTemp(c) == run[c].pc \in {"open", "write", "sync", "rename", "dirsync", "cleanup"}

\* Two callers were handed different contents for the same output path and
\* both calls have returned.
BothWroteSamePath(c, d) ==
    /\ c # d
    /\ run[c].pc = "returned" /\ run[d].pc = "returned"
    /\ HasFetched(c) /\ HasFetched(d)
    /\ OutLoc(c) = OutLoc(d)
    /\ FetchedBytes(c) # FetchedBytes(d)

\* The call of caller c has put its file at the output path.
Installed(c) ==
    \E i \in DOMAIN run[c].log : run[c].log[i].op = "rename" /\ run[c].log[i].note = "ok"

\* C13: when two calls write different contents to the same output path,
\* under any interleaving of their steps, then after both have returned the
\* output file holds all of one of the two contents if either call put its
\* file there (and is as it was before if neither did), and while both calls
\* hold a temporary file the two are different files.
C13_ConcurrentWriters ==
    \A c, d \in Callers :
        /\ (c # d /\ HoldsTemp(c) /\ HoldsTemp(d))
              => /\ run[c].tmp # run[d].tmp
                 /\ WriteTarget(run[c]) # WriteTarget(run[d])
        /\ BothWroteSamePath(c, d)
              => /\ (Installed(c) \/ Installed(d))
                    => FileAt(fs, OutLoc(c)) \in {SomeText(FetchedBytes(c)),
                                                  SomeText(FetchedBytes(d))}
                 /\ (run[c].err.kind = "None" /\ ~Installed(d))
                    => FileAt(fs, OutLoc(c)) = SomeText(FetchedBytes(c))
                 /\ (~Installed(c) /\ ~Installed(d))
                    => FileAt(fs, OutLoc(c)) \in {run[c].before, run[d].before}

\* Both calls succeeded on the same output path with different contents,
\* each through a temporary file of its own, and the file holds the content
\* of the caller that renamed last, here the first.
C13_Witness ==
    /\ BothWroteSamePath(1, 2)
    /\ run[1].err.kind = "None" /\ run[2].err.kind = "None"
    /\ run[1].tmp # run[2].tmp
    /\ FileAt(fs, OutLoc(1)) = SomeText(FetchedBytes(1))

\* materialize was called a second time with the stub path of the first
\* call, which had succeeded, and the environment made nothing fail.
CalledAgain ==
    /\ prev.ret.op = "materialize"
    /\ prev.ret.ok
    /\ prev.injected = "none"

\* C14: when materialize has succeeded and is called again on the same
\* Materializer with the same stub path, the stub file and the repository
\* being as they were and nothing failing in the environment, the second
\* call succeeds, returns the path the first returned, and the file at that
\* path holds the same bytes after the second call as after the first.
C14_IdempotentMaterialize ==
    CalledAgain =>
        /\ ret.op = "materialize"
        /\ ret.arg = prev.ret.arg
        /\ ret.ok
        /\ ret.path = prev.ret.path
        /\ Location(ret.path) \in DOMAIN prev.fs
        /\ FileAt(fs, Location(ret.path)) = FileAt(prev.fs, Location(ret.path))
        /\ fs = prev.fs

\* The stub in the directory d was materialized twice over an output
\* directory that was not there before; both calls returned the same path
\* and the file holds the blob.
C14_Witness ==
    /\ CalledAgain
    /\ ret.ok
    /\ ret.arg.stub_path = <<"d", "/">> \o StubFile(<<"a">>)
    /\ ret.path = prev.ret.path
    /\ FileAt(fs, Location(ret.path)) = SomeText(<<" ", "y">>)

\* The stub path without its last eight characters, ".gitstub".
WithoutSuffix(p) == SubSeq(p, 1, Len(p) - Len(GitstubExt) - 1)

\* A relative path appended to a directory, after the separator of the
\* build target.
Appended(dir, rel) == dir \o <<MainSep>> \o rel

\* The path the last call had to write to: the output directory with the
\* stub path less its suffix for materialize, with the output path handed in
\* for materialize_to.
DerivedOutputPath ==
    IF ret.op = "materialize"
    THEN Appended(mat.output_dir, WithoutSuffix(ret.arg.stub_path))
    ELSE Appended(mat.output_dir, ret.arg.output_path)

\* The blobs of the history that a stub file with the given text names.
BlobsNamedBy(text) ==
    {b.content : b \in {h \in HistoryObjects : StubText(h.commit, h.path) = text}}

\* The files the last call wrote, with what it wrote.
FilesWritten ==
    {[at |-> effects[i].at, data |-> effects[i].data] :
        i \in {j \in DOMAIN effects : effects[j].op = "write"}}

\* C15: a materialize call that succeeds writes to and returns the output
\* directory joined with the stub path less its ".gitstub" suffix, so that
\* the directories of the stub path are kept; a materialize_to call that
\* succeeds writes to the output directory joined with the output path
\* handed in and returns nothing; in both the directories above the file
\* exist afterwards and the file holds the blob at the commit and path the
\* stub file names.
C15_OutputPathDerivation ==
    (Materialized /\ ret.ok) =>
        /\ ret.path = IF ret.op = "materialize" THEN DerivedOutputPath ELSE <<>>
        /\ \E w \in FilesWritten :
              /\ FilesWritten = {w}
              /\ w.at = Location(DerivedOutputPath)
              /\ Prefixes(Front(w.at)) \subseteq dirs
              /\ w.at \in DOMAIN fs
              /\ fs[w.at] = w.data
              /\ BlobsNamedBy(fs[Location(join(mat.repo_root, ret.arg.stub_path))])
                    = {w.data}

----------------------------------------------------------------------------
(* C16: detection is an ordered decision. *)

\* detect has returned.
Detected_ == vres.op = "detect"

\* What is at the root handed to detect, and the state of its markers.
RootState == IF vres.root = StandardRoot THEN world.root ELSE "missing"

JjMarker == IF vres.root = StandardRoot THEN world.jj ELSE "no"

GitMarker == IF vres.root = StandardRoot THEN world.git ELSE "no"

\* What detect returned: the name of the backend, or the kind of the error.
DetectOutcome == IF vres.ok THEN vres.vcs.name ELSE vres.err

\* The existence checks detect made, by the name of the marker.
ProbedMarkers == {vres.log[i].at[Len(vres.log[i].at)] :
                     i \in {j \in DOMAIN vres.log : vres.log[j].op = "try_exists"}}

\* The executable a backend named by a variable and a default has.
ResolvedBinary(v, default) ==
    IF v.state = "Ok" /\ Trim(v.value) # <<>> THEN Trim(v.value) ELSE default

\* The outcome of selecting a backend: the backend, or Env when its variable
\* holds a value that is not valid text.
Selected(name, v) == IF v.state = "NotUnicode" THEN "Env" ELSE name

\* C16 as stated: detect(root) returns the first applicable of PathNotFound
\* (no root), NotADirectory (root is not a directory), Io (another probe
\* failure), the jj backend (.jj exists, whether or not .git does), Io (the
\* .jj check fails), the git backend (.git exists as a directory or a file),
\* NotFound. It fails where the marker exists and the variable of the backend
\* is not valid text: detect returns Env, which the list does not have.
C16_DetectOrderAsStated ==
    Detected_ =>
        DetectOutcome =
            IF RootState = "missing" THEN "PathNotFound"
            ELSE IF RootState = "file" THEN "NotADirectory"
            ELSE IF RootState = "ioerr" THEN "Io"
            ELSE IF JjMarker = "yes" THEN "Jj"
            ELSE IF JjMarker = "ioerr" THEN "Io"
            ELSE IF GitMarker \in {"yes", "file"} THEN "Git"
            ELSE IF GitMarker = "ioerr" THEN "Io"
            ELSE "NotFound"

\* C16, amended: detect(root) returns the first applicable of PathNotFound,
\* NotADirectory, Io, the selection of the jj backend when .jj exists (even
\* when .git exists too), Io when the .jj check fails (.git is not probed
\* then), the selection of the git backend when .git exists as a directory or
\* a file, Io when the .git check fails, NotFound; selecting a backend gives
\* the backend with its resolved executable, or Env when the variable of the
\* backend is not valid text.
C16_DetectOrder ==
    Detected_ =>
        /\ DetectOutcome =
              IF RootState = "missing" THEN "PathNotFound"
              ELSE IF RootState = "file" THEN "NotADirectory"
              ELSE IF RootState = "ioerr" THEN "Io"
              ELSE IF JjMarker = "yes" THEN Selected("Jj", world.JJ)
              ELSE IF JjMarker = "ioerr" THEN "Io"
              ELSE IF GitMarker \in {"yes", "file"} THEN Selected("Git", world.GIT)
              ELSE IF GitMarker = "ioerr" THEN "Io"
              ELSE "NotFound"
        /\ vres.ok =>
              vres.vcs.binary = IF vres.vcs.name = "Jj"
                                THEN ResolvedBinary(world.JJ, <<"j", "j">>)
                                ELSE ResolvedBinary(world.GIT, <<"g", "i", "t">>)
        /\ ProbedMarkers =
              IF RootState # "dir" THEN {}
              ELSE IF JjMarker = "no" THEN {<<".", "j", "j">>, <<".", "g", "i", "t">>}
              ELSE {<<".", "j", "j">>}

\* detect chose jj at a root that has both markers.
C16_Witness ==
    /\ Detected_
    /\ vres.root = StandardRoot
    /\ world.jj = "yes" /\ world.git \in {"yes", "file"}
    /\ vres.ok /\ vres.vcs.name = "Jj"

----------------------------------------------------------------------------
(* C17: what reading the contents returns. *)

\* read_git_stub_contents has returned.
HasReadContents == vres.op = "read"

\* The history has a blob for the stub that was read, and the tool of the
\* backend finds the repository.
ReadableStub ==
    /\ \E b \in HistoryObjects : b.commit = vres.stub.commit /\ b.path = vres.stub.path
    /\ HasRepo(vres.vcs.name, StandardRoot)

\* A text begins or ends with white space.
HasOuterWhitespace(t) == t # <<>> /\ (t[1] \in WhiteSpace \/ t[Len(t)] \in WhiteSpace)

\* C17: read_git_stub_contents returns the bytes the process printed, as
\* they are, exactly when the process exited with success; a process that
\* exited otherwise, whatever the cause, gives VcsFailed with the name of
\* the backend, the stub, the exit status and the trimmed stderr; a process
\* that could not be launched gives SpawnFailed.
C17_ReadOutcome ==
    HasReadContents =>
        /\ vres.err = "None" <=> (vres.out.spawned /\ vres.out.success)
        /\ vres.err = "None" => vres.content = vres.out.stdout
        /\ (vres.err = "None" /\ ReadableStub) =>
              \E b \in HistoryObjects :
                  /\ b.commit = vres.stub.commit /\ b.path = vres.stub.path
                  /\ vres.content = b.content
        /\ (vres.out.spawned /\ ~vres.out.success) =>
              /\ vres.err = "VcsFailed"
              /\ vres.detail.vcs_name = vres.vcs.name
              /\ vres.detail.stub = vres.stub
              /\ vres.detail.exit_status = vres.out.status
              /\ vres.detail.stderr = Trim(vres.out.stderr)
              /\ ~HasOuterWhitespace(vres.detail.stderr)
        /\ ~ReadableStub => vres.err # "None"
        /\ ~vres.out.spawned =>
              /\ vres.err = "SpawnFailed"
              /\ vres.detail.vcs_name = vres.vcs.name
              /\ vres.detail.binary_path = vres.vcs.binary

\* Contents that begin or end with white space were read.
C17_Witness ==
    /\ HasReadContents
    /\ vres.err = "None"
    /\ HasOuterWhitespace(vres.content)

----------------------------------------------------------------------------
(* C18: how the executable of a backend is resolved. *)

\* Vcs::git() or Vcs::jj() has returned.
ConstructedByName == vres.op \in {"git", "jj"}

\* The variable the constructor read, and the name it falls back to.
VarRead == IF vres.op = "git" THEN world.GIT ELSE world.JJ

DefaultName == IF vres.op = "git" THEN <<"g", "i", "t">> ELSE <<"j", "j">>

\* A text of white space only; the empty text is one.
Blank(s) == \A i \in DOMAIN s : s[i] \in WhiteSpace

\* t is s without the white space at its ends.
IsTrimOf(t, s) ==
    /\ ~HasOuterWhitespace(t)
    /\ \E a \in 0..Len(s), b \in 0..Len(s) :
          /\ a + b <= Len(s)
          /\ Blank(SubSeq(s, 1, a))
          /\ Blank(SubSeq(s, Len(s) - b + 1, Len(s)))
          /\ t = SubSeq(s, a + 1, Len(s) - b)

\* C18: the executable of a backend is the trimmed value of its variable
\* (GIT or JJ) when the variable is set and not blank, and the default name
\* (git or jj) when the variable is unset, empty or blank; construction fails
\* only when the variable holds a value that is not valid text; so every
\* backend there is has a non-empty executable.
C18_BinaryResolution ==
    /\ ConstructedByName =>
          /\ vres.ok <=> VarRead.state # "NotUnicode"
          /\ ~vres.ok => vres.err = "NonUtf8"
          /\ (VarRead.state = "Ok" /\ ~Blank(VarRead.value)) =>
                IsTrimOf(vres.vcs.binary, VarRead.value)
          /\ (VarRead.state = "NotPresent" \/ (VarRead.state = "Ok" /\ Blank(VarRead.value))) =>
                vres.vcs.binary = DefaultName
          /\ vres.ok => vres.vcs.name = IF vres.op = "git" THEN "Git" ELSE "Jj"
    /\ vres.ok => vres.vcs.binary # <<>>

\* A backend was constructed from a variable with white space around its
\* value.
C18_Witness ==
    /\ ConstructedByName
    /\ VarRead.state = "Ok"
    /\ HasOuterWhitespace(VarRead.value) /\ ~Blank(VarRead.value)
    /\ vres.ok

----------------------------------------------------------------------------
(* C19: the order of the steps of a materialize call. *)

\* The place of a step in materialize_inner, by what it does: the stub file
\* is read, the process is launched, the directories are made, and the
\* atomic write makes its directory, creates, writes, syncs and renames.
StepRank(op) ==
    CASE op = "directive" -> 0
      [] op = "read" -> 1
      [] op = "spawn" -> 2
      [] op = "mkdir" -> 3
      [] op = "tmpdir" -> 4
      [] op = "create" -> 5
      [] op = "write" -> 6
      [] op = "sync" -> 7
      [] op = "rename" -> 8
      [] op = "dirsync" -> 9

FailedNote(n) == n \in {"failed", "spawn_failed", "exit_failure"}

\* The error a failed step stands for.
ErrorOfStep(e) ==
    IF e.op = "read" THEN MatErr("ReadGitStub", "Io")
    ELSE IF e.op = "spawn"
    THEN MatErr("ReadContents",
                IF e.note = "spawn_failed" THEN "SpawnFailed" ELSE "VcsFailed")
    ELSE IF e.op = "mkdir" THEN MatErr("CreateDir", "Io")
    ELSE IF e.op = "write" THEN MatErr("WriteOutput", "Write")
    ELSE MatErr("WriteOutput", "Rename")

\* The steps of a log are in the order of materialize_inner, each made once
\* but for the writes of write_all.
InOrder(l) ==
    \A i \in 1..(Len(l) - 1) :
        \/ StepRank(l[i].op) < StepRank(l[i + 1].op)
        \/ l[i].op = "write" /\ l[i + 1].op = "write"

\* Nothing follows a failed step.
FailureIsLast(l) == \A i \in DOMAIN l : FailedNote(l[i].note) => i = Len(l)

OpsOf(l) == {l[i].op : i \in DOMAIN l}

\* The error of a call is that of its failed step; without a failed step
\* there is none, or the extension or the parse was refused.
ErrorFromFailure(call, l) ==
    IF l # <<>> /\ FailedNote(l[Len(l)].note)
    THEN call.err = ErrorOfStep(l[Len(l)]) /\ call.pc \in {"returned", "cleanup"}
    ELSE /\ call.err.kind \in {"None", "NotGitStub", "InvalidGitStub"}
         /\ call.err.kind = "InvalidGitStub" =>
               /\ l # <<>> /\ l[Len(l)].op = "read"
               /\ ~GitStub_from_str(l[Len(l)].data).ok
         /\ call.err.kind = "NotGitStub" => l = <<>>

\* A call that returned success made every step.
AllStepsMade(call, l) ==
    (call.pc = "returned" /\ call.err.kind = "None") =>
        /\ {"read", "spawn", "tmpdir", "create", "sync", "rename"} \subseteq OpsOf(l)
        /\ parent(call.output_path).some /\ parent(call.output_path).loc # <<>>
              => "mkdir" \in OpsOf(l)
        /\ Cardinality({i \in DOMAIN l : l[i].op = "write"}) = Len(call.content)

\* C19: a materialize call reads the stub file, parses it, fetches the
\* content, makes the parent directories and writes atomically, in that
\* order; the first step that fails gives the error returned (ReadGitStub,
\* InvalidGitStub, ReadContents, CreateDir, WriteOutput{Write} for the write
\* of the temporary content, WriteOutput{Rename} for the rest of the atomic
\* write) and no later step is made: no process is launched for a stub that
\* cannot be read or parsed, no directory is made when the fetch fails.
C19_StepOrder ==
    \A c \in Callers :
        /\ InOrder(run[c].log)
        /\ FailureIsLast(run[c].log)
        /\ ErrorFromFailure(run[c], run[c].log)
        /\ AllStepsMade(run[c], run[c].log)
        /\ run[c].err.kind \in {"ReadGitStub", "InvalidGitStub"} =>
              Launches(run[c].log) = {}
        /\ run[c].err.kind = "ReadContents" =>
              /\ OpsOf(run[c].log) \cap {"mkdir", "tmpdir"} = {}
              /\ ReturnedAlone(c) => dirs = DirsOf(fs)

\* A call was handed a failure by the content-read process after it read
\* and parsed its stub, and returned with no directory made.
C19_Witness ==
    \E c \in Callers :
        /\ ReturnedAlone(c)
        /\ run[c].err.kind = "ReadContents"
        /\ {"read", "spawn"} \subseteq OpsOf(run[c].log)
        /\ Prefixes(Front(run[c].out_loc)) \cap dirs = {}

----------------------------------------------------------------------------
(* C20: one process per materialize call. *)

\* How often a call made a step.
TimesMade(l, op) == Cardinality({i \in DOMAIN l : l[i].op = op})

\* The launches of a call are content-read commands of its backend for its
\* stub, in its repository.
LaunchesReadContent(call) ==
    \A i \in Launches(call.log) :
        /\ call.log[i].at.vcs = call.self.vcs
        /\ call.log[i].at.cwd = call.self.repo_root
        /\ call.log[i].at.args = ReadArgs(call.self.vcs, call.stub)
        /\ call.log[i].at.args # ShallowArgs(call.self.vcs)

\* The marker of a shallow clone is not looked at.
IgnoresShallowMarker(l) ==
    \A i \in DOMAIN l : l[i].op \in {"try_exists", "metadata"} => l[i].at # ShallowLoc

\* The errors materialize_inner has; a shallow clone is none of them.
MaterializeErrors ==
    {"None", "NotGitStub", "ReadGitStub", "InvalidGitStub", "ReadContents",
     "CreateDir", "WriteOutput"}

\* C20: a materialize or materialize_to call launches at most one process,
\* the content-read command; it does not run the shallow check again, so a
\* clone that became shallow after construction goes unnoticed; and it tries
\* no read, launch or write a second time after a failure.
C20_OneProcessPerCall ==
    \A c \in Callers :
        /\ TimesMade(run[c].log, "spawn") <= 1
        /\ LaunchesReadContent(run[c])
        /\ IgnoresShallowMarker(run[c].log)
        /\ run[c].err.kind \in MaterializeErrors
        /\ \A op \in {"read", "mkdir", "tmpdir", "create", "sync", "rename", "dirsync"} :
              TimesMade(run[c].log, op) <= 1
        /\ TimesMade(run[c].log, "write") <= Len(run[c].content)
        /\ Cardinality({i \in DOMAIN run[c].log : FailedNote(run[c].log[i].note)}) <= 1
        /\ run[c].err.kind \notin {"None", "NotGitStub", "InvalidGitStub"} =>
              FailedNote(run[c].log[Len(run[c].log)].note)

\* In a clone that became shallow after construction a call returned
\* success with one process launched.
C20_Witness ==
    /\ ShallowLoc \in DOMAIN fs
    /\ \E c \in Callers :
          /\ ReturnedAlone(c)
          /\ run[c].err.kind = "None"
          /\ TimesMade(run[c].log, "spawn") = 1
          /\ FileAt(fs, run[c].out_loc) = SomeText(run[c].content)

----------------------------------------------------------------------------
(* C21: which error a stub text is refused with. *)

\* A stub text was parsed.
ParsedText == mode = "parse" /\ pc = "made"

\* The trimmed text has a colon.
HasColon == SplitOnce(Trim(textIn), ":").found

\* The path has a piece that is always refused: ".." anywhere, "." first, a
\* root or a drive.
HasRefusedPiece(p) ==
    \/ \E i \in DOMAIN Pieces(p) : Pieces(p)[i] = <<".", ".">>
    \/ Pieces(p)[1] = <<".">>
    \/ (p # <<>> /\ p[1] \in {"/", "\\"})
    \/ HasDrivePrefix(p)

\* The kind of what parsing returned.
ParseOutcome == IF res.ok THEN "Ok" ELSE res.err.kind

\* C21: parsing a text returns the first error that applies of EmptyInput
\* (the trimmed text is empty), InvalidFormat with the trimmed text (no
\* colon), InvalidCommitHash with the error of the hash (what stands before
\* the first colon is no hash), EmptyPath (nothing after the first colon),
\* NewlineInPath, InvalidPathComponent; a bad commit is reported also when
\* the path is invalid, a newline also when a component is not plain.
C21_ParseErrorPrecedence ==
    ParsedText =>
        IF Blank(textIn) THEN ParseOutcome = "EmptyInput"
        ELSE IF ~HasColon
        THEN ParseOutcome = "InvalidFormat" /\ res.err.text = Trim(textIn)
        ELSE IF ~GitCommitHash_from_str(InputCommitStr).ok
        THEN /\ ParseOutcome = "InvalidCommitHash"
             /\ res.err.inner = GitCommitHash_from_str(InputCommitStr).err
             /\ res.err.inner.kind \in {"InvalidLength", "InvalidHex"}
        ELSE IF InputPath = <<>> THEN ParseOutcome = "EmptyPath"
        ELSE IF Contains(InputPath, "\n") THEN ParseOutcome = "NewlineInPath"
        ELSE /\ ParseOutcome \in {"Ok", "InvalidPathComponent"}
             /\ HasRefusedPiece(InputPath) => ParseOutcome = "InvalidPathComponent"
             /\ ~HasNonPlainPiece(InputPath) => ParseOutcome = "Ok"

\* A text whose path has a newline and a piece "..", refused for the newline.
C21_Witness ==
    /\ ParsedText
    /\ ParseOutcome = "NewlineInPath"
    /\ HasRefusedPiece(InputPath)

----------------------------------------------------------------------------
(* C22: only the first colon separates commit and path. *)

\* The positions of the colons of a text.
Colons(s) == {i \in DOMAIN s : s[i] = ":"}

\* What stands before and after the first colon of a text that has one.
BeforeFirstColon(s) ==
    SubSeq(s, 1, (CHOOSE i \in Colons(s) : \A j \in Colons(s) : i <= j) - 1)

AfterFirstColon(s) ==
    SubSeq(s, (CHOOSE i \in Colons(s) : \A j \in Colons(s) : i <= j) + 1, Len(s))

\* The text is lowercase hex digits of a hash, a colon, a path and one
\* newline, with no white space elsewhere at its ends and no backslash.
CanonicalText(s) ==
    /\ EndsWith(s, "\n") /\ ~HasStrayWhitespace(s)
    /\ ~Contains(s, "\\")
    /\ Colons(s) # {}
    /\ Len(BeforeFirstColon(s)) \in AcceptedLens
    /\ \A i \in DOMAIN BeforeFirstColon(s) :
          BeforeFirstColon(s)[i] \in HexChars \ AsciiUpper

\* C22: only the first colon of the trimmed text separates the commit from
\* the path; every later colon is kept as part of the path; and a canonical
\* text whose path has colons, and nothing a path is refused for (a newline,
\* a component that is not plain, which on Windows a leading drive such as
\* "C:" is), parses with needs_rewrite false and all that follows the first
\* colon as its path.
C22_FirstColonSplit ==
    ParsedText =>
        /\ res.ok =>
              /\ Colons(Trim(textIn)) # {}
              /\ res.stub.path = Replace(AfterFirstColon(Trim(textIn)), "\\", "/")
              /\ GitCommitHash_Display(res.stub.commit)
                    = [i \in DOMAIN BeforeFirstColon(Trim(textIn)) |->
                          IF BeforeFirstColon(Trim(textIn))[i] \in AsciiUpper
                          THEN HexLower[HexVal(BeforeFirstColon(Trim(textIn))[i]) + 1]
                          ELSE BeforeFirstColon(Trim(textIn))[i]]
              /\ Cardinality(Colons(res.stub.path)) = Cardinality(Colons(Trim(textIn))) - 1
        /\ (/\ CanonicalText(textIn)
            /\ Colons(AfterFirstColon(Trim(textIn))) # {}
            /\ ~Contains(AfterFirstColon(Trim(textIn)), "\n")
            /\ ~HasNonPlainPiece(AfterFirstColon(Trim(textIn)))) =>
              /\ res.ok
              /\ ~res.stub.needs_rewrite
              /\ res.stub.path = AfterFirstColon(Trim(textIn))

\* A canonical text whose path has a colon, parsed.
C22_Witness ==
    /\ ParsedText
    /\ CanonicalText(textIn)
    /\ res.ok /\ ~res.stub.needs_rewrite
    /\ Colons(res.stub.path) # {}
    /\ textIn = to_file_contents(res.stub)

----------------------------------------------------------------------------
(* C23: how the shallow check of git is read. *)

\* is_shallow_clone of the git backend has returned.
GitShallowChecked == vres.op = "shallow" /\ vres.vcs.name = "Git"

\* What is_shallow_clone returned: an answer, or the kind of its error.
ShallowOutcome ==
    IF vres.err # "None" THEN vres.err
    ELSE IF vres.value THEN "shallow" ELSE "not shallow"

\* C23: is_shallow_clone for git returns SpawnFailed if the process cannot
\* be launched; otherwise VcsFailed with the exit status and the trimmed
\* stderr if the exit is not a success, whatever stdout holds; otherwise true
\* if the trimmed stdout is exactly "true", false if it is exactly "false",
\* and UnexpectedOutput for every other stdout, the empty one included; so
\* "not shallow" is never the answer of a check that failed or could not be
\* read.
C23_GitShallowCheck ==
    GitShallowChecked =>
        /\ ShallowOutcome =
              IF ~vres.out.spawned THEN "SpawnFailed"
              ELSE IF ~vres.out.success THEN "VcsFailed"
              ELSE IF IsTrimOf(<<"t", "r", "u", "e">>, vres.out.stdout) THEN "shallow"
              ELSE IF IsTrimOf(<<"f", "a", "l", "s", "e">>, vres.out.stdout)
              THEN "not shallow"
              ELSE "UnexpectedOutput"
        /\ ShallowOutcome = "VcsFailed" =>
              /\ vres.detail.exit_status = vres.out.status
              /\ IsTrimOf(vres.detail.stderr, vres.out.stderr)
        /\ ShallowOutcome = "UnexpectedOutput" =>
              IsTrimOf(vres.detail.stdout, vres.out.stdout)
        /\ ShallowOutcome = "not shallow" =>
              /\ vres.out.spawned /\ vres.out.success
              /\ Trim(vres.out.stdout) = <<"f", "a", "l", "s", "e">>

\* A check whose process printed "false" and exited with a failure: VcsFailed.
C23_Witness ==
    /\ GitShallowChecked
    /\ vres.out.spawned /\ ~vres.out.success
    /\ Trim(vres.out.stdout) = <<"f", "a", "l", "s", "e">>
    /\ ShallowOutcome = "VcsFailed"

----------------------------------------------------------------------------
(* C24: the change-tracking directive. *)

\* Utf8Path::is_absolute: a root, and on Windows a prefix before it.
is_absolute(p) ==
    IF windows
    THEN Len(Components(p)) >= 2 /\ Components(p)[1].kind = "Prefix"
                                 /\ Components(p)[2].kind = "RootDir"
    ELSE Components(p) # <<>> /\ Components(p)[1].kind = "RootDir"

\* A call whose stub path passed the check of the extension.
PassedValidation(call) ==
    call.pc \notin {"new", "idle"} /\ call.err.kind # "NotGitStub"

\* The call printed one directive, first of all it did, for its stub file.
OneDirectiveFirst(call, l) ==
    /\ l # <<>>
    /\ l[1].op = "directive"
    /\ l[1].at = join(call.self.repo_root, call.git_stub_path)
    /\ TimesMade(l, "directive") = 1

----------------------------------------------------------------------------
(* C25: nothing temporary is left behind. *)

\* A call is inside AtomicFile::write, between the making of its temporary
\* directory and the drop of it.
InAtomicWrite(call) ==
    call.pc \in {"open", "write", "sync", "rename", "dirsync", "cleanup"}

\* A place is a temporary directory of AtomicFile::write or lies in one.
InTempDir(loc) == \E i \in DOMAIN loc : loc[i] \in TempNames

\* The call made a temporary directory.
MadeTempDir(call) ==
    \E i \in DOMAIN call.log : call.log[i].op = "tmpdir" /\ call.log[i].note = "ok"

----------------------------------------------------------------------------
(* C26: a Materializer does not change. *)

\* The caller holds a Materializer before and after the step.
KeepsMaterializer == mat # NoMat /\ mat' # NoMat

\* C26: materialize and materialize_to, whether they succeed or fail, leave
\* repo_root, output_dir, the backend and the directive flag of the
\* Materializer as they are; the backend changes only in a with_vcs that
\* succeeded, and repo_root, output_dir and the flag never change.
C26_MaterializerImmutable ==
    [][/\ calls' # calls => mat' = mat /\ ret'.op \in {"materialize", "materialize_to"}
       /\ KeepsMaterializer =>
             /\ mat'.repo_root = mat.repo_root
             /\ mat'.output_dir = mat.output_dir
             /\ mat'.emit_cargo_directives = mat.emit_cargo_directives
             /\ mat'.vcs # mat.vcs =>
                   ret'.op = "with_vcs" /\ ret'.ok /\ mat'.vcs = ret'.arg.vcs]_vars

\* After the last of its calls, a materialize_to that failed, the
\* Materializer of a build script has the root, the output directory and
\* the flag the constructor gave it.
C26_Witness ==
    /\ mode = "mat"
    /\ calls = MaxCalls
    /\ ret.op = "materialize_to"
    /\ ~ret.ok
    /\ mat.emit_cargo_directives
    /\ mat.repo_root = join(ManifestDir.value, BuildScriptRoot)
    /\ mat.output_dir = join(OutDir.value, GitStubVcsDir)

----------------------------------------------------------------------------
(* C27: the command that reads the content. *)

\* A text is the lowercase hex form of a commit hash.
IsCommitText(t, h) ==
    /\ Len(t) = 2 * Len(h.bytes)
    /\ \A i \in DOMAIN t : \E v \in 1..16 : HexLower[v] = t[i]
    /\ DecodeToSlice(t, Len(h.bytes)).bytes = h.bytes

\* A text is `<lowercase-commit>:<path>` of a stub.
IsStubText(t, stub) ==
    /\ Len(t) = 2 * Len(stub.commit.bytes) + 1 + Len(stub.path)
    /\ IsCommitText(SubSeq(t, 1, 2 * Len(stub.commit.bytes)), stub.commit)
    /\ t[2 * Len(stub.commit.bytes) + 1] = ":"
    /\ SubSeq(t, 2 * Len(stub.commit.bytes) + 2, Len(t)) = stub.path

\* The arguments `cat-file blob <arg>`.
IsGitRead(args, stub) ==
    /\ Len(args) = 3
    /\ args[1] = "cat-file" /\ args[2] = "blob"
    /\ IsStubText(args[3], stub)
    /\ args[3][1] # "-"

\* The arguments `file show --ignore-working-copy --revision <commit> --
\* <path>`: the path is the last argument and the end-of-options marker the
\* one before it.
IsJjRead(args, stub) ==
    /\ Len(args) = 7
    /\ args[1] = "file" /\ args[2] = "show"
    /\ args[3] = "--ignore-working-copy" /\ args[4] = "--revision"
    /\ IsCommitText(args[5], stub.commit)
    /\ args[6] = "--"
    /\ args[7] = stub.path

----------------------------------------------------------------------------
(* C28: the display and the order of commit hashes. *)

\* A text with its uppercase hex digits in lowercase.
LowerCased(t) ==
    [i \in DOMAIN t |->
        IF \E v \in 11..16 : HexUpper[v] = t[i]
        THEN HexLower[CHOOSE v \in 11..16 : HexUpper[v] = t[i]] ELSE t[i]]

\* A text of 40 or 64 hex digits.
ValidHashText(t) ==
    Len(t) \in {Sha1HexLen, Sha256HexLen} /\ \A i \in DOMAIN t : IsHexDigit(t[i])

\* The order of two byte strings of one length: that of the first bytes
\* that differ.
ByFirstDifference(x, y) ==
    IF x = y THEN "Equal"
    ELSE IF x[CHOOSE k \in DOMAIN x :
                  x[k] # y[k] /\ \A j \in 1..(k - 1) : x[j] = y[j]]
            < y[CHOOSE k \in DOMAIN x :
                  x[k] # y[k] /\ \A j \in 1..(k - 1) : x[j] = y[j]]
    THEN "Less" ELSE "Greater"

HashCompared == mode = "hash" /\ pc = "hash_compared"

\* What holds of the display and of parsing it again.
DisplayRoundTrip ==
    /\ (mode = "hash" /\ pc # "start" /\ ValidHashText(hashIn)) => hashRes.ok
    /\ (mode = "hash" /\ pc \in {"hash_shown", "hash_done"}) =>
          /\ Len(hashText) \in {Sha1HexLen, Sha256HexLen}
          /\ \A i \in DOMAIN hashText : \E v \in 1..16 : HexLower[v] = hashText[i]
          /\ hashText = LowerCased(hashIn)
    /\ (mode = "hash" /\ pc = "hash_done") =>
          hashRes2.ok /\ hashRes2.hash = hashRes.hash

\* C28 as stated: the display is 40 or 64 lowercase hex digits, parsing and
\* display are inverse up to case, and two hashes are ordered as their raw
\* bytes are.
C28_HashDisplayAndOrderAsStated ==
    /\ DisplayRoundTrip
    /\ HashCompared =>
          /\ hashOrd.eq <=> hashRes.hash.bytes = hashOrd.with.bytes
          /\ hashOrd.ord = LexCmp(hashRes.hash.bytes, hashOrd.with.bytes)

\* C28: the display of a hash is 40 or 64 lowercase hex digits; every text
\* of 40 or 64 hex digits parses, its display is the text in lowercase and
\* the display parses to the same hash; two hashes are equal exactly when
\* their bytes are, and they are ordered by kind first, every SHA-1 hash
\* before every SHA-256 hash, and by their bytes within a kind.
C28_HashDisplayAndOrder ==
    /\ DisplayRoundTrip
    /\ HashCompared =>
          /\ hashOrd.eq <=> hashRes.hash.bytes = hashOrd.with.bytes
          /\ hashOrd.eq <=> hashOrd.ord = "Equal"
          /\ hashRes.hash.kind = hashOrd.with.kind =>
                hashOrd.ord = ByFirstDifference(hashRes.hash.bytes, hashOrd.with.bytes)
          /\ (hashRes.hash.kind = "Sha1" /\ hashOrd.with.kind = "Sha256") =>
                hashOrd.ord = "Less"
          /\ (hashRes.hash.kind = "Sha256" /\ hashOrd.with.kind = "Sha1") =>
                hashOrd.ord = "Greater"

\* A SHA-1 hash written in uppercase was compared with a SHA-256 hash whose
\* first byte is smaller, and came out as the lesser of the two.
C28_Witness ==
    /\ HashCompared
    /\ hashIn[1] \in AsciiUpper
    /\ hashRes.hash.kind = "Sha1"
    /\ hashOrd.with.kind = "Sha256"
    /\ hashRes.hash.bytes[1] > hashOrd.with.bytes[1]
    /\ hashOrd.ord = "Less"

----------------------------------------------------------------------------
(* C29: the rewrite flag is exact. *)

\* A text was parsed to a stub and the stub written out again.
ParsedAndWritten == mode = "parse" /\ pc \in {"written", "done"}

\* C29: for a text that parses, needs_rewrite of the stub is false exactly
\* when the text is, character for character, what to_file_contents gives
\* for that stub.
C29_RewriteFlagExact ==
    ParsedAndWritten => (~res.stub.needs_rewrite <=> textIn = contents)

\* A text in the canonical wrapping, with forward slashes only, was flagged
\* for its uppercase hex digits, and the file contents differ from it.
C29_Witness ==
    /\ ParsedAndWritten
    /\ res.stub.needs_rewrite
    /\ textIn # contents
    /\ Len(textIn) = Len(contents)
    /\ ~Contains(textIn, "\\")
    /\ \E i \in DOMAIN textIn : textIn[i] \in AsciiUpper

----------------------------------------------------------------------------
(* C30: writing a stub out twice changes nothing. *)

\* C30: for a text that parses, the file contents of the stub parse, to a
\* stub with the same commit and path that is equal to the first and needs
\* no rewrite, and the file contents of that stub are those of the first.
C30_CanonicalIdempotent ==
    (mode = "parse" /\ pc = "done") =>
        /\ res2.ok
        /\ res2.stub.commit = res.stub.commit
        /\ res2.stub.path = res.stub.path
        /\ GitStub_eq(res2.stub, res.stub)
        /\ ~res2.stub.needs_rewrite
        /\ Len(contents) = Len(GitStub_Display(res2.stub)) + 1
        /\ SubSeq(contents, 1, Len(contents) - 1) = GitStub_Display(res2.stub)
        /\ Last(contents) = "\n"

\* A text that needed a rewrite, with backslashes in its path, was written
\* out and parsed again.
C30_Witness ==
    /\ mode = "parse" /\ pc = "done"
    /\ res.stub.needs_rewrite
    /\ Contains(textIn, "\\")
    /\ res2.ok
    /\ ~res2.stub.needs_rewrite

====
